---- MODULE Spec2Model ----
(***************************************************************************)
(* Gaupol: editing of subtitle data (lib/gaupol/base/delegates/edit.py),   *)
(* conversion of tags (lib/gaupol/base/tags/converter.py) and reading of   *)
(* remote documents (lib/gaupol/base/util/wwwlib.py), and the patterns a   *)
(* pattern manager hands out (gaupol/patternman.py).                       *)
(*                                                                         *)
(* A project holds four parallel per-row lists (times, frames, main_texts, *)
(* tran_texts), a clipboard and the undo / redo stacks.  Every editing     *)
(* method of EditDelegate is an operator from a project record to a        *)
(* project record, so that undo and redo can re-enter the methods with     *)
(* another register flag exactly as the reverted actions do.               *)
(*                                                                         *)
(* Units: a time is a number of milliseconds (the code keeps the string    *)
(* 'HH:MM:SS,mmm', whose order and equality are those of the number), a    *)
(* frame is an integer, a framerate is given in frames per 1000 seconds.   *)
(* Rows are 0-based as in the code; Sequences are 1-based.                 *)
(***************************************************************************)
EXTENDS Integers, Sequences, FiniteSets, TLC

VARIABLES
    times,          \* project.times: list of [show, hide, duration] (ms)
    frames,         \* project.frames: list of [show, hide, duration]
    main_texts,     \* project.main_texts
    tran_texts,     \* project.tran_texts
    clipboard,      \* project.clipboard.data
    undoables,      \* undo stack, top first
    redoables,      \* redo stack, top first
    mode,           \* main file's mode: "TIME" or "FRAME"
    framerate,      \* frames per 1000 seconds
    call,           \* the last editing call made: method, arguments, result
    pre,            \* the project before that call
    post,           \* the four lists after that call
    hist,           \* the undo / redo calls made since that call
    calls,          \* the number of editing calls made
    run,            \* the registered edits made in a row, and the four
                    \* lists before the first and after the last of them
    notes,          \* what observers were sent during the last call
    conv,           \* a tag conversion: converter, text, stages run
    net,            \* read_url: the caller's position, the reader threads
    manager         \* a PatternManager: _patterns, the last get_patterns

vars == <<times, frames, main_texts, tran_texts, clipboard, undoables,
          redoables, mode, framerate, call, pre, post, hist, calls, run,
          notes, conv, net, manager>>

\* ----------------------------------------------------------------------
\* Bounds of the model.

\* Editing calls a user makes (undo and redo are not counted).
MaxDo == 1
\* Editing calls a user makes where edits follow undone edits.
MaxEdits == 2
\* Rows a document may grow to.
MaxRows == 4
\* Calls of read_url made one after the other.
MaxReads == 2
\* Patterns read from the pattern files of all codes.
MaxPatterns == 3

\* ----------------------------------------------------------------------
\* Constants of gaupol.base.colcons (SHOW, HIDE, DURN: the positions of a
\* [show, hide, duration] list) and of gaupol.base.cons.

cSHOW == 1
cHIDE == 2
cDURN == 3
Cols == {cSHOW, cHIDE, cDURN}

Modes == {"TIME", "FRAME"}
Documents == {"MAIN", "TRAN"}

\* The framerate of the video, in frames per 1000 seconds (23.976 fps).
Framerates == {23976}

\* ----------------------------------------------------------------------
\* The calculator (self.calc), a collaborator of the delegate.

\* Python 2 round(): nearest integer of n / d (d > 0), halves away from zero.
Round(n, d) ==
    IF n >= 0 THEN (2 * n + d) \div (2 * d)
    ELSE -((2 * (-n) + d) \div (2 * d))

time_to_frame(fr, time) == Round(time * fr, 1000000)

frame_to_time(fr, frame) == Round(frame * 1000000, fr)

get_time_duration(show, hide) == hide - show

get_frame_duration(show, hide) == hide - show

add_times(x, y) == x + y

\* A value that is not a time or a frame (a string of another form, an
\* object that is not a number): converting it raises.  It stands apart
\* from every position and duration the methods calculate.
Malformed == -999999
converts(value) == value # Malformed

\* ----------------------------------------------------------------------
\* Python list operations on 0-based indices.

At(lst, row) == lst[row + 1]

ListInsert(lst, row, x) ==
    LET i == IF row > Len(lst) THEN Len(lst) ELSE row
    IN SubSeq(lst, 1, i) \o <<x>> \o SubSeq(lst, i + 1, Len(lst))

ListPop(lst, row) == SubSeq(lst, 1, row) \o SubSeq(lst, row + 2, Len(lst))

\* Comparison of two [show, hide, duration] lists: item < other.
ListLess(item, other) ==
    \/ item[cSHOW] < other[cSHOW]
    \/ item[cSHOW] = other[cSHOW] /\ item[cHIDE] < other[cHIDE]
    \/ item[cSHOW] = other[cSHOW] /\ item[cHIDE] = other[cHIDE]
       /\ item[cDURN] < other[cDURN]

RECURSIVE BisectLoop(_, _, _, _)
BisectLoop(lst, item, lo, hi) ==
    IF lo < hi
    THEN LET mid == (lo + hi) \div 2
         IN IF ListLess(item, At(lst, mid))
            THEN BisectLoop(lst, item, lo, mid)
            ELSE BisectLoop(lst, item, mid + 1, hi)
    ELSE lo

\* bisect_right that gives the index before the insertion point.
bisect_right_one_less(lst, item) ==
    LET point == BisectLoop(lst, item, 0, Len(lst))
    IN IF point > 0 THEN point - 1 ELSE 0

bisect_right(lst, item) == BisectLoop(lst, item, 0, Len(lst))

\* ----------------------------------------------------------------------
\* The project record the methods work on.

Self ==
    [times |-> times, frames |-> frames, main_texts |-> main_texts,
     tran_texts |-> tran_texts, clipboard |-> clipboard,
     undoables |-> undoables, redoables |-> redoables,
     mode |-> mode, framerate |-> framerate, ret |-> -1,
     blocked |-> {}, emitted |-> <<>>, error |-> ""]

\* An exception leaves the method where it is raised: the project is as
\* the statements before have left it.
raise(s, error) == [s EXCEPT !.error = error]

\* The data the reversion tests compare.
Data(s) == <<s.times, s.frames, s.main_texts, s.tran_texts>>

get_mode(s) == s.mode

get_positions(s) == IF get_mode(s) = "TIME" THEN s.times ELSE s.frames

\* A show value handed to get_needs_resort is a time (a string that
\* int() rejects) or a frame (an integer).
ShowTime(time) == [unit |-> "time", value |-> time]
ShowFrame(frame) == [unit |-> "frame", value |-> frame]

\* get_needs_resort that moves the row where the show value would put it.
get_needs_resort_moving(s, row, show_value) ==
    LET value == IF show_value.unit = "frame"
                 THEN (IF get_mode(s) = "TIME"
                       THEN frame_to_time(s.framerate, show_value.value)
                       ELSE show_value.value)
                 ELSE (IF get_mode(s) = "FRAME"
                       THEN time_to_frame(s.framerate, show_value.value)
                       ELSE show_value.value)
        positions == get_positions(s)
        lst == ListPop(positions, row)
        item == [At(positions, row) EXCEPT ![cSHOW] = value]
        new_row == bisect_right(lst, item)
        move(entry) == ListInsert(ListPop(entry, row), new_row,
                                  At(entry, row))
    IN [s EXCEPT !.times = move(s.times), !.frames = move(s.frames),
                 !.main_texts = move(s.main_texts),
                 !.tran_texts = move(s.tran_texts),
                 !.ret = new_row # row]

\* The item compared is the row as stored with the show value in place
\* of its show: hide and duration are those stored.
get_needs_resort(s, row, show_value) ==
    LET value == IF show_value.unit = "frame"
                 THEN (IF get_mode(s) = "TIME"
                       THEN frame_to_time(s.framerate, show_value.value)
                       ELSE show_value.value)
                 ELSE (IF get_mode(s) = "FRAME"
                       THEN time_to_frame(s.framerate, show_value.value)
                       ELSE show_value.value)
        positions == get_positions(s)
        lst == ListPop(positions, row)
        item == [At(positions, row) EXCEPT ![cSHOW] = value]
        new_row == bisect_right(lst, item)
    IN [s EXCEPT !.ret = new_row # row]

\* ----------------------------------------------------------------------
\* Registering revertable actions (the action delegate).

\* One registered action: the revert method, its arguments and the rows
\* and columns reported as updated.  Arguments a method does not take
\* keep the values below.
NoAction ==
    [description |-> "", docs |-> {}, revert_method |-> "",
     row |-> 0, col |-> 0, value |-> 0, text |-> "", document |-> "",
     rows |-> <<>>, tran_rows |-> <<>>, texts |-> <<>>, more_texts |-> <<>>,
     times |-> <<>>, frames |-> <<>>, blank |-> FALSE,
     updated_rows |-> <<>>, updated_positions |-> <<>>,
     updated_main_texts |-> <<>>, updated_tran_texts |-> <<>>,
     inserted_rows |-> <<>>, removed_rows |-> <<>>]

\* An entry of a stack: a description and the actions it groups, the
\* latest registered first.
Entry(action) == [description |-> action.description, actions |-> <<action>>]

\* The signal of a register.
get_signal(register) ==
    IF register = "DO" THEN "action_done"
    ELSE IF register = "UNDO" THEN "action_undone"
    ELSE "action_redone"

block(s, signal) == [s EXCEPT !.blocked = @ \cup {signal}]

unblock(s, signal) == [s EXCEPT !.blocked = @ \ {signal}]

\* Observers are sent the signal, and see the data as they are, unless
\* the signal is blocked.
emit(s, signal) ==
    IF signal \in s.blocked THEN s
    ELSE [s EXCEPT !.emitted = Append(@, [signal |-> signal, data |-> Data(s)])]

\* A new action goes on top of the undo stack and clears the redo stack
\* unless its signal is blocked; the action of a revert goes on top of
\* the other stack.
register_action(s, register, action) ==
    LET signal == get_signal(register)
        s1 == IF register = "DO"
              THEN [s EXCEPT !.undoables = <<Entry(action)>> \o @,
                             !.redoables = IF signal \in s.blocked THEN @
                                           ELSE <<>>]
              ELSE IF register = "UNDO"
              THEN [s EXCEPT !.redoables = <<Entry(action)>> \o @]
              ELSE [s EXCEPT !.undoables = <<Entry(action)>> \o @]
    IN emit(s1, signal)

\* The stack new actions of this register go to.
Stack(s, register) == IF register = "UNDO" THEN s.redoables ELSE s.undoables

WithStack(s, register, stack) ==
    IF register = "UNDO" THEN [s EXCEPT !.redoables = stack]
    ELSE [s EXCEPT !.undoables = stack]

set_action_description(s, register, description) ==
    LET stack == Stack(s, register)
    IN IF stack = <<>> THEN s
       ELSE WithStack(s, register,
                <<[Head(stack) EXCEPT !.description = description]>>
                \o Tail(stack))

RECURSIVE JoinActions(_)
JoinActions(entries) ==
    IF entries = <<>> THEN <<>>
    ELSE Head(entries).actions \o JoinActions(Tail(entries))

group_actions(s, register, count, description) ==
    LET stack == Stack(s, register)
        n == IF count > Len(stack) THEN Len(stack) ELSE count
    IN IF n = 0 THEN s
       ELSE emit(WithStack(s, register,
                     <<[description |-> description,
                        actions |-> JoinActions(SubSeq(stack, 1, n))]>>
                     \o SubSeq(stack, n + 1, Len(stack))),
                 get_signal(register))

\* ----------------------------------------------------------------------
\* EditDelegate: positions.

\* set_durations that keeps the durations and sets the shows from them.
set_durations_moving_show(s, row) ==
    LET t == At(s.times, row)
        f == At(s.frames, row)
    IN [s EXCEPT
          !.times[row + 1][cSHOW] = t[cHIDE] - t[cDURN],
          !.frames[row + 1][cSHOW] = f[cHIDE] - f[cDURN]]

set_durations(s, row) ==
    LET t == At(s.times, row)
        f == At(s.frames, row)
    IN [s EXCEPT
          !.times[row + 1][cDURN] = get_time_duration(t[cSHOW], t[cHIDE]),
          !.frames[row + 1][cDURN] = get_frame_duration(f[cSHOW], f[cHIDE])]

\* set_hides that forgets the frames: the hide frame keeps its value.
set_hides_times_only(s, row) ==
    LET t == At(s.times, row)
    IN [s EXCEPT !.times[row + 1][cHIDE] = add_times(t[cSHOW], t[cDURN])]

set_hides(s, row) ==
    LET t == At(s.times, row)
        f == At(s.frames, row)
    IN [s EXCEPT
          !.times[row + 1][cHIDE] = add_times(t[cSHOW], t[cDURN]),
          !.frames[row + 1][cHIDE] = f[cSHOW] + f[cDURN]]

\* _sort_data that exchanges the row with the one at its new index.
_sort_data_swapping(s, row) ==
    LET positions == get_positions(s)
        lst == SubSeq(positions, 1, row)
               \o SubSeq(positions, row + 2, Len(positions))
        new_row == bisect_right(lst, At(positions, row))
        Swap(entry) == [entry EXCEPT ![row + 1] = entry[new_row + 1],
                                     ![new_row + 1] = entry[row + 1]]
    IN IF new_row # row
       THEN [s EXCEPT !.times = Swap(@), !.frames = Swap(@),
                      !.main_texts = Swap(@), !.tran_texts = Swap(@),
                      !.ret = new_row]
       ELSE [s EXCEPT !.ret = new_row]

\* _sort_data that leaves the row where it is.
_sort_data_unmoved(s, row) == [s EXCEPT !.ret = row]

\* _sort_data that moves the row in times and frames but not in the texts.
_sort_data_positions_only(s, row) ==
    LET positions == get_positions(s)
        lst == SubSeq(positions, 1, row)
               \o SubSeq(positions, row + 2, Len(positions))
        new_row == bisect_right(lst, At(positions, row))
        Move(entry) == ListInsert(ListPop(entry, row), new_row, At(entry, row))
    IN IF new_row # row
       THEN [s EXCEPT !.times = Move(@), !.frames = Move(@), !.ret = new_row]
       ELSE [s EXCEPT !.ret = new_row]

\* Sort data after the show value in row has changed; ret is the new row.
_sort_data(s, row) ==
    LET positions == get_positions(s)
        lst == SubSeq(positions, 1, row)
               \o SubSeq(positions, row + 2, Len(positions))
        item == At(positions, row)
        new_row == bisect_right(lst, item)
        Move(entry) == ListInsert(ListPop(entry, row), new_row, At(entry, row))
    IN IF new_row # row
       THEN [s EXCEPT !.times = Move(@), !.frames = Move(@),
                      !.main_texts = Move(@), !.tran_texts = Move(@),
                      !.ret = new_row]
       ELSE [s EXCEPT !.ret = new_row]

\* The rows range(first_row, last_row + 1).
Range(first_row, last_row) ==
    [i \in 1..(last_row - first_row + 1) |-> first_row + i - 1]

Min(a, b) == IF a < b THEN a ELSE b
Max(a, b) == IF a > b THEN a ELSE b

\* SetPosition that records the rows from the lower index up to, but
\* not including, the higher one.
SetPosition_half_open(s1, row, col, description, revert_method, orig_value, register) ==
    LET s2 == IF col \in {cSHOW, cHIDE} THEN set_durations(s1, row)
              ELSE set_hides(s1, row)
        s3 == IF col = cSHOW THEN _sort_data(s2, row) ELSE [s2 EXCEPT !.ret = row]
        new_row == s3.ret
        moved == col = cSHOW /\ new_row # row
        revert_row == IF moved THEN new_row ELSE row
        action ==
            [NoAction EXCEPT
               !.docs = {"MAIN"},
               !.description = description,
               !.revert_method = revert_method,
               !.row = revert_row, !.col = col, !.value = orig_value,
               !.updated_rows =
                   IF moved
                   THEN Range(Min(row, new_row), Max(row, new_row) - 1)
                   ELSE <<>>,
               !.updated_positions = IF moved THEN <<>> ELSE <<row>>]
    IN [register_action(s3, register, action) EXCEPT !.ret = revert_row]

\* The part set_time and set_frame share once the value is written.
SetPosition(s1, row, col, description, revert_method, orig_value, register) ==
    LET s2 == IF col \in {cSHOW, cHIDE} THEN set_durations(s1, row)
              ELSE set_hides(s1, row)
        s3 == IF col = cSHOW THEN _sort_data(s2, row) ELSE [s2 EXCEPT !.ret = row]
        new_row == s3.ret
        moved == col = cSHOW /\ new_row # row
        revert_row == IF moved THEN new_row ELSE row
        action ==
            [NoAction EXCEPT
               !.docs = {"MAIN"},
               !.description = description,
               !.revert_method = revert_method,
               !.row = revert_row, !.col = col, !.value = orig_value,
               !.updated_rows =
                   IF moved THEN Range(Min(row, new_row), Max(row, new_row))
                   ELSE <<>>,
               !.updated_positions = IF moved THEN <<>> ELSE <<row>>]
    IN [register_action(s3, register, action) EXCEPT !.ret = revert_row]

\* set_frame that reverts with set_frame and the original frame in
\* either mode.
set_frame_reverting_frame(s, row, col, value, register) ==
    IF value = At(s.frames, row)[col] THEN [s EXCEPT !.ret = row]
    ELSE LET s1 == [s EXCEPT
                      !.frames[row + 1][col] = value,
                      !.times[row + 1][col] = frame_to_time(s.framerate, value)]
         IN SetPosition(s1, row, col, "Editing frame", "set_frame",
                        At(s.frames, row)[col], register)

\* set_frame without the return on an unchanged value.
set_frame_unchecked(s, row, col, value, register) ==
    LET orig_value == IF get_mode(s) = "TIME" THEN At(s.times, row)[col]
                      ELSE At(s.frames, row)[col]
        revert_method == IF get_mode(s) = "TIME" THEN "set_time"
                         ELSE "set_frame"
        s1 == [s EXCEPT
                 !.frames[row + 1][col] = value,
                 !.times[row + 1][col] = frame_to_time(s.framerate, value)]
    IN SetPosition(s1, row, col, "Editing frame", revert_method,
                   orig_value, register)

\* The frame is written, then converted: a conversion that raises leaves
\* the frame written.
set_frame(s, row, col, value, register) ==
    IF value = At(s.frames, row)[col] THEN [s EXCEPT !.ret = row]
    ELSE LET orig_value == IF get_mode(s) = "TIME" THEN At(s.times, row)[col]
                           ELSE At(s.frames, row)[col]
             revert_method == IF get_mode(s) = "TIME" THEN "set_time"
                              ELSE "set_frame"
             written == [s EXCEPT !.frames[row + 1][col] = value]
             s1 == [written EXCEPT
                      !.times[row + 1][col] = frame_to_time(s.framerate, value)]
         IN IF ~converts(value) THEN raise(written, "ValueError")
            ELSE SetPosition(s1, row, col, "Editing frame", revert_method,
                             orig_value, register)

\* set_time that stores the time as the frame, without converting it.
set_time_unconverted(s, row, col, value, register) ==
    IF value = At(s.times, row)[col] THEN [s EXCEPT !.ret = row]
    ELSE LET orig_value == IF get_mode(s) = "TIME" THEN At(s.times, row)[col]
                           ELSE At(s.frames, row)[col]
             revert_method == IF get_mode(s) = "TIME" THEN "set_time"
                              ELSE "set_frame"
             s1 == [s EXCEPT !.times[row + 1][col] = value,
                             !.frames[row + 1][col] = value]
         IN SetPosition(s1, row, col, "Editing time", revert_method,
                        orig_value, register)

\* The time is written, then converted: a conversion that raises leaves
\* the time written.
set_time(s, row, col, value, register) ==
    IF value = At(s.times, row)[col] THEN [s EXCEPT !.ret = row]
    ELSE LET orig_value == IF get_mode(s) = "TIME" THEN At(s.times, row)[col]
                           ELSE At(s.frames, row)[col]
             revert_method == IF get_mode(s) = "TIME" THEN "set_time"
                              ELSE "set_frame"
             written == [s EXCEPT !.times[row + 1][col] = value]
             s1 == [written EXCEPT
                      !.frames[row + 1][col] = time_to_frame(s.framerate, value)]
         IN IF ~converts(value) THEN raise(written, "ValueError")
            ELSE SetPosition(s1, row, col, "Editing time", revert_method,
                             orig_value, register)

\* ----------------------------------------------------------------------
\* EditDelegate: texts.

\* unicode(value): a value handed to set_text is a string or a number
\* and is stored as the string that writes it.
unicode(value) == value.repr

Texts(s, document) == IF document = "MAIN" THEN s.main_texts ELSE s.tran_texts

WithTexts(s, document, texts) ==
    IF document = "MAIN" THEN [s EXCEPT !.main_texts = texts]
    ELSE [s EXCEPT !.tran_texts = texts]

\* The loop below writing to the index of the enumeration, not to the
\* row: texts[i] = new_texts[i].
RECURSIVE ReplaceLoop_enumerated(_, _, _, _)
ReplaceLoop_enumerated(texts, rows, new_texts, i) ==
    IF i > Len(rows) THEN texts
    ELSE ReplaceLoop_enumerated([texts EXCEPT ![i] = new_texts[i]],
                                rows, new_texts, i + 1)

\* for i, row in enumerate(rows): texts[row] = new_texts[i]
RECURSIVE ReplaceLoop(_, _, _, _)
ReplaceLoop(texts, rows, new_texts, i) ==
    IF i > Len(rows) THEN texts
    ELSE ReplaceLoop([texts EXCEPT ![rows[i] + 1] = new_texts[i]],
                     rows, new_texts, i + 1)

\* for i, row in enumerate(rows): orig_texts.append(texts[row]), read
\* while the loop above writes.
RECURSIVE OrigLoop(_, _, _, _)
OrigLoop(texts, rows, new_texts, i) ==
    IF i > Len(rows) THEN <<>>
    ELSE <<At(texts, rows[i])>>
         \o OrigLoop([texts EXCEPT ![rows[i] + 1] = new_texts[i]],
                     rows, new_texts, i + 1)

\* replace_texts that records the new texts, not the original ones.
replace_texts_new_payload(s, rows, document, new_texts, register) ==
    LET texts == Texts(s, document)
        s1 == WithTexts(s, document, ReplaceLoop(texts, rows, new_texts, 1))
        action ==
            [NoAction EXCEPT
               !.docs = {document},
               !.description = "Replacing texts",
               !.revert_method = "replace_texts",
               !.rows = rows, !.document = document, !.texts = new_texts,
               !.updated_main_texts =
                   IF document = "MAIN" THEN rows ELSE <<>>,
               !.updated_tran_texts =
                   IF document = "TRAN" THEN rows ELSE <<>>]
    IN register_action(s1, register, action)

replace_texts(s, rows, document, new_texts, register) ==
    LET texts == Texts(s, document)
        orig_texts == OrigLoop(texts, rows, new_texts, 1)
        s1 == WithTexts(s, document, ReplaceLoop(texts, rows, new_texts, 1))
        action ==
            [NoAction EXCEPT
               !.docs = {document},
               !.description = "Replacing texts",
               !.revert_method = "replace_texts",
               !.rows = rows, !.document = document, !.texts = orig_texts,
               !.updated_main_texts =
                   IF document = "MAIN" THEN rows ELSE <<>>,
               !.updated_tran_texts =
                   IF document = "TRAN" THEN rows ELSE <<>>]
    IN register_action(s1, register, action)

replace_both_texts(s, main_rows, tran_rows, new_main_texts, new_tran_texts, register) ==
    LET orig_main_texts == OrigLoop(s.main_texts, main_rows, new_main_texts, 1)
        orig_tran_texts == OrigLoop(s.tran_texts, tran_rows, new_tran_texts, 1)
        s1 == [s EXCEPT
                 !.main_texts = ReplaceLoop(@, main_rows, new_main_texts, 1),
                 !.tran_texts = ReplaceLoop(@, tran_rows, new_tran_texts, 1)]
        action ==
            [NoAction EXCEPT
               !.docs = {"MAIN", "TRAN"},
               !.description = "Replacing texts",
               !.revert_method = "replace_both_texts",
               !.rows = main_rows, !.tran_rows = tran_rows,
               !.texts = orig_main_texts, !.more_texts = orig_tran_texts,
               !.updated_main_texts = main_rows,
               !.updated_tran_texts = tran_rows]
    IN register_action(s1, register, action)

\* set_text that registers its action as a redone one.
set_text_as_redone(s, row, document, value, register) ==
    LET text == unicode(value)
        orig_value == At(Texts(s, document), row)
        s1 == WithTexts(s, document,
                        [Texts(s, document) EXCEPT ![row + 1] = text])
        action ==
            [NoAction EXCEPT
               !.docs = {document},
               !.description = "Editing text",
               !.revert_method = "set_text",
               !.row = row, !.document = document, !.text = orig_value]
    IN IF text = orig_value THEN s1
       ELSE register_action(s1, "REDO", action)

set_text(s, row, document, value, register) ==
    LET text == unicode(value)
        orig_value == At(Texts(s, document), row)
        s1 == WithTexts(s, document,
                        [Texts(s, document) EXCEPT ![row + 1] = text])
        action ==
            [NoAction EXCEPT
               !.docs = {document},
               !.description = "Editing text",
               !.revert_method = "set_text",
               !.row = row, !.document = document, !.text = orig_value,
               !.updated_main_texts =
                   IF document = "MAIN" THEN <<row>> ELSE <<>>,
               !.updated_tran_texts =
                   IF document = "TRAN" THEN <<row>> ELSE <<>>]
    IN IF text = orig_value THEN s1
       ELSE register_action(s1, register, action)

\* clear_texts that sets the description before it replaces the texts.
clear_texts_described_first(s, rows, document, register) ==
    LET new_texts == [i \in 1..Len(rows) |-> ""]
        s1 == set_action_description(s, register, "Clearing texts")
    IN replace_texts(s1, rows, document, new_texts, register)

clear_texts(s, rows, document, register) ==
    LET new_texts == [i \in 1..Len(rows) |-> ""]
        s1 == replace_texts(s, rows, document, new_texts, register)
    IN set_action_description(s1, register, "Clearing texts")

\* An entry of the clipboard: a text, or None.
None == [none |-> TRUE, text |-> ""]
Some(text) == [none |-> FALSE, text |-> text]

InRows(row, rows) == \E i \in 1..Len(rows) : rows[i] = row

RowMin(rows) == CHOOSE r \in {rows[i] : i \in 1..Len(rows)} :
                    \A i \in 1..Len(rows) : r <= rows[i]
RowMax(rows) == CHOOSE r \in {rows[i] : i \in 1..Len(rows)} :
                    \A i \in 1..Len(rows) : r >= rows[i]

\* copy_texts that copies the texts of the rows one after the other,
\* leaving no entry for the rows between them.
copy_texts_compact(s, rows, document) ==
    [s EXCEPT !.clipboard =
        [k \in 1..Len(rows) |-> Some(At(Texts(s, document), rows[k]))]]

copy_texts(s, rows, document) ==
    LET start_row == RowMin(rows)
        end_row == RowMax(rows)
        texts == Texts(s, document)
        data == [k \in 1..(end_row - start_row + 1) |->
                    IF InRows(start_row + k - 1, rows)
                    THEN Some(At(texts, start_row + k - 1))
                    ELSE None]
    IN [s EXCEPT !.clipboard = data]

\* cut_texts that clears the texts before it copies them.
cut_texts_clearing_first(s, rows, document, register) ==
    LET s1 == clear_texts(s, rows, document, register)
        s2 == copy_texts(s1, rows, document)
    IN set_action_description(s2, register, "Cutting texts")

cut_texts(s, rows, document, register) ==
    LET s1 == copy_texts(s, rows, document)
        s2 == clear_texts(s1, rows, document, register)
    IN set_action_description(s2, register, "Cutting texts")

\* ----------------------------------------------------------------------
\* EditDelegate: inserting and removing subtitles.

\* Optimal duration in seconds.
opt_sec == 3

\* calc.time_to_seconds: seconds are kept as a number of milliseconds.
time_to_seconds(time) == time

\* calc.seconds_to_time of the seconds num / den (in milliseconds):
\* times have millisecond precision.
seconds_to_time(num, den) == Round(num, den)

\* One blank subtitle of _insert_blank, in time mode: the seconds are
\* start + i * duration with duration = dnum / den.
BlankTimeRow(s, start, dnum, den, i) ==
    LET show_time == seconds_to_time(start * den + i * dnum, den)
        hide_time == seconds_to_time(start * den + (i + 1) * dnum, den)
        durn_time == get_time_duration(show_time, hide_time)
        show_frame == time_to_frame(s.framerate, show_time)
        hide_frame == time_to_frame(s.framerate, hide_time)
        durn_frame == get_frame_duration(show_frame, hide_frame)
    IN [time |-> <<show_time, hide_time, durn_time>>,
        frame |-> <<show_frame, hide_frame, durn_frame>>]

\* One blank subtitle of _insert_blank, in frame mode.
BlankFrameRow(s, start, duration, i) ==
    LET show_frame == start + i * duration
        hide_frame == start + (i + 1) * duration
        durn_frame == get_frame_duration(show_frame, hide_frame)
        show_time == frame_to_time(s.framerate, show_frame)
        hide_time == frame_to_time(s.framerate, hide_frame)
        durn_time == get_time_duration(show_time, hide_time)
    IN [time |-> <<show_time, hide_time, durn_time>>,
        frame |-> <<show_frame, hide_frame, durn_frame>>]

RECURSIVE InsertRows(_, _, _, _, _, _, _)
\* for i, row in enumerate(rows): insert the i-th data in all four
\* lists, one list after the other.  Indexing a sequence of data past its
\* end raises IndexError and leaves what was inserted before.
InsertRows(s, rows, new_times, new_frames, new_main, new_tran, i) ==
    IF i > Len(rows) THEN s
    ELSE IF i > Len(new_times) THEN raise(s, "IndexError")
    ELSE IF i > Len(new_frames)
    THEN raise([s EXCEPT !.times = ListInsert(@, rows[i], new_times[i])],
               "IndexError")
    ELSE IF i > Len(new_main)
    THEN raise([s EXCEPT !.times = ListInsert(@, rows[i], new_times[i]),
                         !.frames = ListInsert(@, rows[i], new_frames[i])],
               "IndexError")
    ELSE IF i > Len(new_tran)
    THEN raise([s EXCEPT
                  !.times = ListInsert(@, rows[i], new_times[i]),
                  !.frames = ListInsert(@, rows[i], new_frames[i]),
                  !.main_texts = ListInsert(@, rows[i], new_main[i])],
               "IndexError")
    ELSE InsertRows(
             [s EXCEPT
                !.times = ListInsert(@, rows[i], new_times[i]),
                !.frames = ListInsert(@, rows[i], new_frames[i]),
                !.main_texts = ListInsert(@, rows[i], new_main[i]),
                !.tran_texts = ListInsert(@, rows[i], new_tran[i])],
             rows, new_times, new_frames, new_main, new_tran, i + 1)

\* _insert_blank that gives the optimal duration wherever it inserts.
_insert_blank_optimal(s, rows) ==
    LET positions == get_positions(s)
        start_row == RowMin(rows)
        amount == Len(rows)
        at_end == TRUE
        start == IF start_row > 0
                 THEN (IF s.mode = "TIME"
                       THEN time_to_seconds(At(positions, start_row - 1)[cHIDE])
                       ELSE At(positions, start_row - 1)[cHIDE])
                 ELSE 0
        end == IF s.mode = "TIME"
               THEN time_to_seconds(At(positions, start_row)[cSHOW])
               ELSE At(positions, start_row)[cSHOW]
        dnum == IF at_end THEN opt_sec * 1000 ELSE end - start
        den == IF at_end THEN 1 ELSE amount
        duration == IF at_end THEN Round(s.framerate * opt_sec, 1000)
                    ELSE (end - start) \div amount
        new == [i \in 1..amount |->
                   IF s.mode = "TIME"
                   THEN BlankTimeRow(s, start, dnum, den, i - 1)
                   ELSE BlankFrameRow(s, start, duration, i - 1)]
    IN InsertRows(s, [i \in 1..amount |-> start_row + i - 1],
                  [i \in 1..amount |-> new[i].time],
                  [i \in 1..amount |-> new[i].frame],
                  [i \in 1..amount |-> ""], [i \in 1..amount |-> ""], 1)

\* _insert_blank that starts the first blank subtitle at 0.
_insert_blank_from_zero(s, rows) ==
    LET positions == get_positions(s)
        start_row == RowMin(rows)
        amount == Len(rows)
        at_end == ~(start_row < Len(s.times))
        start == IF start_row > Len(s.times)
                 THEN (IF s.mode = "TIME"
                       THEN time_to_seconds(At(positions, start_row - 1)[cHIDE])
                       ELSE At(positions, start_row - 1)[cHIDE])
                 ELSE 0
        end == IF s.mode = "TIME"
               THEN time_to_seconds(At(positions, start_row)[cSHOW])
               ELSE At(positions, start_row)[cSHOW]
        dnum == IF at_end THEN opt_sec * 1000 ELSE end - start
        den == IF at_end THEN 1 ELSE amount
        duration == IF at_end THEN Round(s.framerate * opt_sec, 1000)
                    ELSE (end - start) \div amount
        new == [i \in 1..amount |->
                   IF s.mode = "TIME"
                   THEN BlankTimeRow(s, start, dnum, den, i - 1)
                   ELSE BlankFrameRow(s, start, duration, i - 1)]
    IN InsertRows(s, [i \in 1..amount |-> start_row + i - 1],
                  [i \in 1..amount |-> new[i].time],
                  [i \in 1..amount |-> new[i].frame],
                  [i \in 1..amount |-> ""], [i \in 1..amount |-> ""], 1)

_insert_blank(s, rows) ==
    LET positions == get_positions(s)
        start_row == RowMin(rows)
        amount == Len(rows)
        at_end == ~(start_row < Len(s.times))
        start == IF start_row > 0
                 THEN (IF s.mode = "TIME"
                       THEN time_to_seconds(At(positions, start_row - 1)[cHIDE])
                       ELSE At(positions, start_row - 1)[cHIDE])
                 ELSE 0
        end == IF s.mode = "TIME"
               THEN time_to_seconds(At(positions, start_row)[cSHOW])
               ELSE At(positions, start_row)[cSHOW]
        dnum == IF at_end THEN opt_sec * 1000 ELSE end - start
        den == IF at_end THEN 1 ELSE amount
        duration == IF at_end THEN Round(s.framerate * opt_sec, 1000)
                    ELSE (end - start) \div amount
        new == [i \in 1..amount |->
                   IF s.mode = "TIME"
                   THEN BlankTimeRow(s, start, dnum, den, i - 1)
                   ELSE BlankFrameRow(s, start, duration, i - 1)]
    IN InsertRows(s, [i \in 1..amount |-> start_row + i - 1],
                  [i \in 1..amount |-> new[i].time],
                  [i \in 1..amount |-> new[i].frame],
                  [i \in 1..amount |-> ""], [i \in 1..amount |-> ""], 1)

_insert_data(s, rows, new_times, new_frames, new_main, new_tran) ==
    InsertRows(s, rows, new_times, new_frames, new_main, new_tran, 1)

\* sorted(rows)
sorted(rows) == SortSeq(rows, LAMBDA a, b : a < b)

\* insert_subtitles that records no rows to remove.
insert_subtitles_no_rows(s, rows_, new_times, new_frames, new_main, new_tran, blank, register) ==
    LET rows == sorted(rows_)
        s1 == IF blank THEN _insert_blank(s, rows)
              ELSE _insert_data(s, rows, new_times, new_frames, new_main,
                                new_tran)
        action ==
            [NoAction EXCEPT
               !.docs = {"MAIN", "TRAN"},
               !.description = "Inserting subtitles",
               !.revert_method = "remove_subtitles",
               !.inserted_rows = rows]
    IN register_action(s1, register, action)

\* blank stands for a None among times, frames, main_texts, tran_texts.
insert_subtitles(s, rows_, new_times, new_frames, new_main, new_tran, blank, register) ==
    LET rows == sorted(rows_)
        s1 == IF blank THEN _insert_blank(s, rows)
              ELSE _insert_data(s, rows, new_times, new_frames, new_main,
                                new_tran)
        action ==
            [NoAction EXCEPT
               !.docs = {"MAIN", "TRAN"},
               !.description = "Inserting subtitles",
               !.revert_method = "remove_subtitles",
               !.rows = rows,
               !.inserted_rows = rows]
    IN IF s1.error # "" THEN s1 ELSE register_action(s1, register, action)

\* for row in reversed(rows): pop the row from all four lists and put
\* what was popped at the head of the removed data.
RECURSIVE RemoveLoop(_, _, _, _)
RemoveLoop(s, rows, i, removed) ==
    IF i < 1 THEN [s |-> s, removed |-> removed]
    ELSE RemoveLoop(
             [s EXCEPT
                !.times = ListPop(@, rows[i]),
                !.frames = ListPop(@, rows[i]),
                !.main_texts = ListPop(@, rows[i]),
                !.tran_texts = ListPop(@, rows[i])],
             rows, i - 1,
             [times |-> <<At(s.times, rows[i])>> \o removed.times,
              frames |-> <<At(s.frames, rows[i])>> \o removed.frames,
              main_texts |-> <<At(s.main_texts, rows[i])>>
                             \o removed.main_texts,
              tran_texts |-> <<At(s.tran_texts, rows[i])>>
                             \o removed.tran_texts])

\* remove_subtitles that records what it removed from the last row to
\* the first.
remove_subtitles_descending(s, rows_, register) ==
    LET rows == sorted(rows_)
        done == RemoveLoop(s, rows, Len(rows),
                           [times |-> <<>>, frames |-> <<>>,
                            main_texts |-> <<>>, tran_texts |-> <<>>])
        Turned(lst) == [i \in 1..Len(lst) |-> lst[Len(lst) + 1 - i]]
        action ==
            [NoAction EXCEPT
               !.docs = {"MAIN", "TRAN"},
               !.description = "Removing subtitles",
               !.revert_method = "insert_subtitles",
               !.rows = rows,
               !.times = Turned(done.removed.times),
               !.frames = Turned(done.removed.frames),
               !.texts = Turned(done.removed.main_texts),
               !.more_texts = Turned(done.removed.tran_texts),
               !.removed_rows = rows]
    IN register_action(done.s, register, action)

remove_subtitles(s, rows_, register) ==
    LET rows == sorted(rows_)
        done == RemoveLoop(s, rows, Len(rows),
                           [times |-> <<>>, frames |-> <<>>,
                            main_texts |-> <<>>, tran_texts |-> <<>>])
        action ==
            [NoAction EXCEPT
               !.docs = {"MAIN", "TRAN"},
               !.description = "Removing subtitles",
               !.revert_method = "insert_subtitles",
               !.rows = rows,
               !.times = done.removed.times,
               !.frames = done.removed.frames,
               !.texts = done.removed.main_texts,
               !.more_texts = done.removed.tran_texts,
               !.removed_rows = rows]
    IN register_action(done.s, register, action)

\* The rows and texts of the clipboard entries that are not None.
RECURSIVE PastedRows(_, _, _)
PastedRows(data, start_row, i) ==
    IF i > Len(data) THEN <<>>
    ELSE (IF data[i].none THEN <<>> ELSE <<start_row + i - 1>>)
         \o PastedRows(data, start_row, i + 1)

RECURSIVE PastedTexts(_, _)
PastedTexts(data, i) ==
    IF i > Len(data) THEN <<>>
    ELSE (IF data[i].none THEN <<>> ELSE <<data[i].text>>)
         \o PastedTexts(data, i + 1)

\* paste_texts that does not block the signal.
paste_texts_unblocked(s, start_row, document, register) ==
    LET data == s.clipboard
        current_length == Len(s.times)
        amount == Len(data) - (current_length - start_row)
        s1 == IF amount > 0
              THEN insert_subtitles(
                       s, Range(current_length, current_length + amount - 1),
                       <<>>, <<>>, <<>>, <<>>, TRUE, register)
              ELSE s
        rows == PastedRows(data, start_row, 1)
        new_texts == PastedTexts(data, 1)
        s2 == replace_texts(s1, rows, document, new_texts, register)
        s3 == IF amount > 0
              THEN group_actions(s2, register, 2, "Pasting texts")
              ELSE set_action_description(s2, register, "Pasting texts")
    IN [s3 EXCEPT !.ret = rows]

\* paste_texts that groups the last action alone.
paste_texts_grouping_one(s, start_row, document, register) ==
    LET data == s.clipboard
        current_length == Len(s.times)
        amount == Len(data) - (current_length - start_row)
        signal == get_signal(register)
        s1 == IF amount > 0
              THEN insert_subtitles(
                       block(s, signal),
                       Range(current_length, current_length + amount - 1),
                       <<>>, <<>>, <<>>, <<>>, TRUE, register)
              ELSE s
        rows == PastedRows(data, start_row, 1)
        new_texts == PastedTexts(data, 1)
        s2 == replace_texts(s1, rows, document, new_texts, register)
        s3 == IF amount > 0
              THEN group_actions(unblock(s2, signal), register, 1,
                                 "Pasting texts")
              ELSE set_action_description(s2, register, "Pasting texts")
    IN [s3 EXCEPT !.ret = rows]

\* paste_texts that returns every row under the clipboard, also those
\* whose entry is None.
paste_texts_returning_all(s, start_row, document, register) ==
    LET data == s.clipboard
        current_length == Len(s.times)
        amount == Len(data) - (current_length - start_row)
        signal == get_signal(register)
        s1 == IF amount > 0
              THEN insert_subtitles(
                       block(s, signal),
                       Range(current_length, current_length + amount - 1),
                       <<>>, <<>>, <<>>, <<>>, TRUE, register)
              ELSE s
        rows == PastedRows(data, start_row, 1)
        new_texts == PastedTexts(data, 1)
        s2 == replace_texts(s1, rows, document, new_texts, register)
        s3 == IF amount > 0
              THEN group_actions(unblock(s2, signal), register, 2,
                                 "Pasting texts")
              ELSE set_action_description(s2, register, "Pasting texts")
    IN [s3 EXCEPT !.ret = Range(start_row, start_row + Len(data) - 1)]

\* ret is the list of rows pasted into.
paste_texts(s, start_row, document, register) ==
    LET data == s.clipboard
        current_length == Len(s.times)
        amount == Len(data) - (current_length - start_row)
        signal == get_signal(register)
        s1 == IF amount > 0
              THEN insert_subtitles(
                       block(s, signal),
                       Range(current_length, current_length + amount - 1),
                       <<>>, <<>>, <<>>, <<>>, TRUE, register)
              ELSE s
        rows == PastedRows(data, start_row, 1)
        new_texts == PastedTexts(data, 1)
        s2 == replace_texts(s1, rows, document, new_texts, register)
        s3 == IF amount > 0
              THEN group_actions(unblock(s2, signal), register, 2,
                                 "Pasting texts")
              ELSE set_action_description(s2, register, "Pasting texts")
    IN [s3 EXCEPT !.ret = rows]

\* ----------------------------------------------------------------------
\* Undoing and redoing (the action delegate).

\* action.revert(): the revert method called with the revert arguments
\* and the given register.
Revert(s, a, register) ==
    CASE a.revert_method = "set_time" ->
             set_time(s, a.row, a.col, a.value, register)
      [] a.revert_method = "set_frame" ->
             set_frame(s, a.row, a.col, a.value, register)
      [] a.revert_method = "set_text" ->
             set_text(s, a.row, a.document,
                      [type |-> "unicode", repr |-> a.text], register)
      [] a.revert_method = "replace_texts" ->
             replace_texts(s, a.rows, a.document, a.texts, register)
      [] a.revert_method = "replace_both_texts" ->
             replace_both_texts(s, a.rows, a.tran_rows, a.texts,
                                a.more_texts, register)
      [] a.revert_method = "insert_subtitles" ->
             insert_subtitles(s, a.rows, a.times, a.frames, a.texts,
                              a.more_texts, FALSE, register)
      [] a.revert_method = "remove_subtitles" ->
             remove_subtitles(s, a.rows, register)

RECURSIVE RevertAll(_, _, _)
RevertAll(s, actions, register) ==
    IF actions = <<>> THEN s
    ELSE RevertAll(Revert(s, Head(actions), register), Tail(actions),
                   register)

\* Revert the top entry of one stack; what its reverts register goes to
\* the other stack as one entry under the description of the entry, and
\* observers are sent the signal once the entry is reverted.
RevertTop(s, register) ==
    LET from == IF register = "UNDO" THEN s.undoables ELSE s.redoables
        entry == Head(from)
        signal == get_signal(register)
        s1 == IF register = "UNDO" THEN [s EXCEPT !.undoables = Tail(@)]
              ELSE [s EXCEPT !.redoables = Tail(@)]
        s2 == RevertAll(block(s1, signal), entry.actions, register)
        count == Len(Stack(s2, register)) - Len(Stack(s1, register))
    IN group_actions(unblock(s2, signal), register, count,
                     entry.description)

\* undo that leaves an entry on the redo stack when there is nothing to
\* undo.
undo_leaving_entry(s) ==
    IF s.undoables = <<>>
    THEN [s EXCEPT !.redoables = <<Entry(NoAction)>> \o @]
    ELSE RevertTop(s, "UNDO")

undo(s) == IF s.undoables = <<>> THEN s ELSE RevertTop(s, "UNDO")

redo(s) == IF s.redoables = <<>> THEN s ELSE RevertTop(s, "REDO")

\* ----------------------------------------------------------------------
\* TagConverter: conversion of tags between subtitle formats.
\*
\* A text is a sequence of tokens: a tag, a run of plain text, or the
\* line break "\n".  A regular expression substitution is modelled by
\* what it does to the tokens of the text.

Formats == {"MICRODVD", "SUBRIP", "SSA"}

NewLine == "\n"

\* Indices of an entry of decode_tags / encode_tags.
PATTERN == 1
FLAGS == 2
REPL == 3
COUNT == 4

\* The first index from k on of a token of the text that is among tags,
\* 0 if there is none.
RECURSIVE FirstIn(_, _, _)
FirstIn(text, tags, k) ==
    IF k > Len(text) THEN 0
    ELSE IF text[k] \in tags THEN k
    ELSE FirstIn(text, tags, k + 1)

RECURSIVE SplitLines(_)
SplitLines(text) ==
    LET k == FirstIn(text, {NewLine}, 1)
    IN IF k = 0 THEN <<text>>
       ELSE <<SubSeq(text, 1, k - 1)>>
            \o SplitLines(SubSeq(text, k + 1, Len(text)))

RECURSIVE JoinLines(_)
JoinLines(lines) ==
    IF Len(lines) = 1 THEN lines[1]
    ELSE lines[1] \o <<NewLine>> \o JoinLines(Tail(lines))

\* Every token among tags deleted (a substitution by the empty string).
Delete(text, tags) == SelectSeq(text, LAMBDA token : token \notin tags)

\* Every token tag replaced by the token repl.
Replace(text, tag, repl) ==
    [k \in 1..Len(text) |-> IF text[k] = tag THEN repl ELSE text[k]]

\* A MicroDVD style tag without its last style, and that style.
StyleTags == {"{y:biu}", "{y:bi}", "{y:b}", "{y:i}", "{Y:i}"}
Peeled(tag) ==
    CASE tag = "{y:biu}" -> [tag |-> "{y:bi}", style |-> "u"]
      [] tag = "{y:bi}" -> [tag |-> "{y:b}", style |-> "i"]
      [] tag = "{y:b}" -> [tag |-> "{y:}", style |-> "b"]
      [] tag = "{y:i}" -> [tag |-> "{y:}", style |-> "i"]
      [] tag = "{Y:i}" -> [tag |-> "{Y:}", style |-> "i"]

OpeningTag(style) ==
    CASE style = "b" -> "<b>" [] style = "i" -> "<i>" [] style = "u" -> "<u>"
ClosingTag(style) ==
    CASE style = "b" -> "</b>" [] style = "i" -> "</i>"
      [] style = "u" -> "</u>"

\* From the first tag among tags to the end of the text: head stands for
\* the tag, and what follows it is put between opening and closing.
Wrap(text, tags, head(_), opening(_), closing(_)) ==
    LET k == FirstIn(text, tags, 1)
    IN IF k = 0 THEN text
       ELSE SubSeq(text, 1, k - 1) \o head(text[k]) \o <<opening(text[k])>>
            \o SubSeq(text, k + 1, Len(text)) \o <<closing(text[k])>>

\* The last style of a style tag taken out of the tag and put around what
\* follows the tag.
PeelStyle(text, tags) ==
    Wrap(text, tags, LAMBDA tag : <<Peeled(tag).tag>>,
         LAMBDA tag : OpeningTag(Peeled(tag).style),
         LAMBDA tag : ClosingTag(Peeled(tag).style))

EachLine(text, F(_)) ==
    LET lines == SplitLines(text)
    IN JoinLines([i \in 1..Len(lines) |-> F(lines[i])])

ColourTags == {"<color=#rrggbb>", "<color=#ffffff>", "</color>"}

\* regex.sub(repl, text), for the patterns of the formats below.
sub(regex, repl, text) ==
    CASE regex[PATTERN] = "{y:STYLES}TEXT$" ->
            EachLine(text, LAMBDA line :
                PeelStyle(line, StyleTags \ {"{Y:i}"}))
      [] regex[PATTERN] = "{Y:STYLES}TEXT" -> PeelStyle(text, {"{Y:i}"})
      [] regex[PATTERN] = "{[yY]:}" -> Delete(text, {"{y:}", "{Y:}"})
      [] regex[PATTERN] = "{c:$COLOUR}TEXT$" ->
            EachLine(text, LAMBDA line :
                Wrap(line, {"{c:$rrggbb}"}, LAMBDA tag : <<>>,
                     LAMBDA tag : "<color=#rrggbb>",
                     LAMBDA tag : "</color>"))
      [] regex[PATTERN] = "{\\i1}" -> Replace(text, "{\\i1}", repl)
      [] regex[PATTERN] = "{\\b1}" -> Replace(text, "{\\b1}", repl)
      [] regex[PATTERN] = "{\\c&HCOLOUR&}" ->
            Replace(text, "{\\c&Hffffff&}", repl)
      [] regex[PATTERN] = "</?color.*?>" -> Delete(text, ColourTags)
      [] OTHER -> text

\* decode_tags and encode_tags of the classes of the formats: entries
\* (pattern, flags, replacement) or (pattern, flags, replacement, count).
decode_tags(format) ==
    CASE format = "MICRODVD" ->
            << <<"{y:STYLES}TEXT$", "MULTILINE", "{y:STYLES}<STYLE>TEXT</STYLE>", 3>>,
               <<"{Y:STYLES}TEXT", "DOTALL", "{Y:STYLES}<STYLE>TEXT</STYLE>">>,
               <<"{[yY]:}", "", "">>,
               <<"{c:$COLOUR}TEXT$", "MULTILINE", "<color=#COLOUR>TEXT</color>">> >>
      [] format = "SSA" ->
            << <<"{\\i1}", "", "<i>">>,
               <<"{\\b1}", "", "<b>">>,
               <<"{\\c&HCOLOUR&}", "", "<color=#ffffff>">> >>
      [] format = "SUBRIP" -> <<>>

encode_tags(format) ==
    CASE format = "SUBRIP" -> << <<"</?color.*?>", "", "", 2>> >>
      [] format = "MICRODVD" -> <<>>
      [] format = "SSA" -> <<>>

\* The tags that are open at the end of the text, the last opened first.
RECURSIVE OpenTags(_, _, _)
OpenTags(text, k, open) ==
    IF k > Len(text) THEN open
    ELSE LET token == text[k]
         IN IF token \in {"<b>", "<i>", "<u>"}
            THEN OpenTags(text, k + 1, <<token>> \o open)
            ELSE IF token \in {"<color=#rrggbb>", "<color=#ffffff>"}
            THEN OpenTags(text, k + 1, <<"<color>">> \o open)
            ELSE IF token \in {"</b>", "</i>", "</u>", "</color>"}
                    /\ open # <<>>
            THEN OpenTags(text, k + 1, Tail(open))
            ELSE OpenTags(text, k + 1, open)

Closers(open) ==
    [k \in 1..Len(open) |->
        CASE open[k] = "<b>" -> "</b>"
          [] open[k] = "<i>" -> "</i>"
          [] open[k] = "<u>" -> "</u>"
          [] open[k] = "<color>" -> "</color>"]

\* SSA: the reset tag closes the tags that are open where it stands, and
\* the tags open at the end of the text are closed there.
RECURSIVE CloseTags(_, _)
CloseTags(text, k) ==
    IF k > Len(text) THEN text \o Closers(OpenTags(text, 1, <<>>))
    ELSE IF text[k] = "{\\r}"
    THEN LET closers == Closers(OpenTags(SubSeq(text, 1, k - 1), 1, <<>>))
         IN CloseTags(SubSeq(text, 1, k - 1) \o closers
                      \o SubSeq(text, k + 1, Len(text)), k + Len(closers))
    ELSE CloseTags(text, k + 1)

\* The arbitrary functions of the classes of the formats.
Hooks(format) ==
    [pre_decode |-> "identity",
     post_decode |-> IF format = "SSA" THEN "close_tags" ELSE "identity",
     pre_encode |-> "identity",
     post_encode |-> "identity"]

Apply(function, text) ==
    IF function = "close_tags" THEN CloseTags(text, 1) ELSE text

\* re.compile(pattern, flags)
compile(pattern, flags) == <<pattern, flags>>

\* Compiled entries that all have the count 1.
Regexs_without_count(tags) ==
    [k \in 1..Len(tags) |->
        [regex |-> compile(tags[k][PATTERN], tags[k][FLAGS]),
         repl |-> tags[k][REPL], count |-> 1]]

\* for entry in tags: [regex, entry[REPL], count], count being
\* entry[COUNT], or 1 where the entry has none (IndexError).
Regexs(tags) ==
    [k \in 1..Len(tags) |->
        [regex |-> compile(tags[k][PATTERN], tags[k][FLAGS]),
         repl |-> tags[k][REPL],
         count |-> IF Len(tags[k]) >= COUNT THEN tags[k][COUNT] ELSE 1]]

\* TagConverter.__init__
TagConverter(from_format, to_format) ==
    [_from_regexs |-> Regexs(decode_tags(from_format)),
     _to_regexs |-> Regexs(encode_tags(to_format)),
     _pre_decode |-> Hooks(from_format).pre_decode,
     _post_decode |-> Hooks(from_format).post_decode,
     _pre_encode |-> Hooks(to_format).pre_encode,
     _post_encode |-> Hooks(to_format).post_encode]

\* What convert_tags has made of the text so far, and the stages it has
\* run: which stage, which rule of the pipeline (0 for a function), what
\* the stage was given and what it gave.
Converted(text) == [text |-> text, stages |-> <<>>]

Stage(c, stage, rule, output) ==
    [text |-> output,
     stages |-> Append(c.stages, [stage |-> stage, rule |-> rule,
                                  input |-> c.text, output |-> output])]

\* for i in range(entry[COUNT]): text = entry[REGEX].sub(entry[REPL], text)
RECURSIVE Substitute(_, _, _, _, _)
Substitute(c, stage, rule, entry, i) ==
    IF i >= entry.count THEN c
    ELSE Substitute(Stage(c, stage, rule,
                          sub(entry.regex, entry.repl, c.text)),
                    stage, rule, entry, i + 1)

\* for entry in regexs: ...
RECURSIVE Pipeline(_, _, _, _)
Pipeline(c, stage, regexs, rule) ==
    IF rule > Len(regexs) THEN c
    ELSE Pipeline(Substitute(c, stage, rule, regexs[rule], 0), stage,
                  regexs, rule + 1)

\* convert_tags that substitutes every rule once, then every rule with
\* a count once more, and so on.
RECURSIVE Rounds(_, _, _, _)
Rounds(c, stage, regexs, i) ==
    IF \A rule \in 1..Len(regexs) : i >= regexs[rule].count THEN c
    ELSE LET Pass[rule \in 0..Len(regexs)] ==
                 IF rule = 0 THEN c
                 ELSE IF i >= regexs[rule].count THEN Pass[rule - 1]
                 ELSE Stage(Pass[rule - 1], stage, rule,
                            sub(regexs[rule].regex, regexs[rule].repl,
                                Pass[rule - 1].text))
         IN Rounds(Pass[Len(regexs)], stage, regexs, i + 1)

convert_tags_in_rounds(self, text) ==
    IF text = <<>> THEN Converted(text)
    ELSE LET c1 == Stage(Converted(text), "pre_decode", 0,
                         Apply(self._pre_decode, text))
             c2 == Rounds(c1, "decode", self._from_regexs, 0)
             c3 == Stage(c2, "post_decode", 0,
                         Apply(self._post_decode, c2.text))
             c4 == Stage(c3, "pre_encode", 0,
                         Apply(self._pre_encode, c3.text))
             c5 == Rounds(c4, "encode", self._to_regexs, 0)
         IN Stage(c5, "post_encode", 0, Apply(self._post_encode, c5.text))

\* convert_tags that returns the text in the internal format.
convert_tags_decoding_only(self, text) ==
    IF text = <<>> THEN Converted(text)
    ELSE LET c1 == Stage(Converted(text), "pre_decode", 0,
                         Apply(self._pre_decode, text))
             c2 == Pipeline(c1, "decode", self._from_regexs, 1)
         IN Stage(c2, "post_decode", 0, Apply(self._post_decode, c2.text))

convert_tags(self, text) ==
    IF text = <<>> THEN Converted(text)
    ELSE LET c1 == Stage(Converted(text), "pre_decode", 0,
                         Apply(self._pre_decode, text))
             c2 == Pipeline(c1, "decode", self._from_regexs, 1)
             c3 == Stage(c2, "post_decode", 0,
                         Apply(self._post_decode, c2.text))
             c4 == Stage(c3, "pre_encode", 0,
                         Apply(self._pre_encode, c3.text))
             c5 == Pipeline(c4, "encode", self._to_regexs, 1)
         IN Stage(c5, "post_encode", 0, Apply(self._post_encode, c5.text))

\* ----------------------------------------------------------------------
\* PatternManager: the patterns of a script, language and country.

\* An argument that is None.
NoIdentifier == ""

\* Zyyy is the first code and the most specific one last.
_get_codes(script, language, country) ==
    LET with_script == IF script # NoIdentifier THEN <<script>> ELSE <<>>
        with_language == IF language # NoIdentifier
                         THEN <<script \o "-" \o language>> ELSE <<>>
        with_country == IF country # NoIdentifier
                        THEN <<script \o "-" \o language \o "-" \o country>>
                        ELSE <<>>
    IN <<"Zyyy">> \o with_script \o with_language \o with_country

\* replacement_found after the inner loop for patterns[i]: a pattern
\* after it has its name and the policy 'Replace'.
replacement_found(patterns, i) ==
    \E j \in (i + 1)..Len(patterns) :
       /\ patterns[j].name = patterns[i].name
       /\ patterns[j].policy = "Replace"

\* for i, pattern in enumerate(patterns): append unless replaced.
RECURSIVE FilterLoop(_, _)
FilterLoop(patterns, i) ==
    IF i > Len(patterns) THEN <<>>
    ELSE (IF replacement_found(patterns, i) THEN <<>> ELSE <<patterns[i]>>)
         \o FilterLoop(patterns, i + 1)

_filter_patterns(patterns) == FilterLoop(patterns, 1)

\* self._patterns.get(code, [])
PatternsOfCode(self, code) ==
    IF code \in DOMAIN self._patterns THEN self._patterns[code] ELSE <<>>

\* for code in codes: for pattern in ...: patterns.append(pattern)
RECURSIVE CollectLoop(_, _, _)
CollectLoop(self, codes, i) ==
    IF i > Len(codes) THEN <<>>
    ELSE PatternsOfCode(self, codes[i]) \o CollectLoop(self, codes, i + 1)

get_patterns(self, script, language, country) ==
    LET codes == _get_codes(script, language, country)
        patterns == CollectLoop(self, codes, 1)
    IN [self EXCEPT !.codes = codes, !.patterns = patterns,
                    !.ret = _filter_patterns(patterns), !.asked = TRUE]

\* ----------------------------------------------------------------------
\* The documents a project is opened with and the values callers pass.

\* A subtitle read from a time-based file: frames are calculated from
\* times, durations from shows and hides.
TimeRow(fr, show, hide) ==
    [time |-> <<show, hide, get_time_duration(show, hide)>>,
     frame |-> <<time_to_frame(fr, show), time_to_frame(fr, hide),
                 get_frame_duration(time_to_frame(fr, show),
                                    time_to_frame(fr, hide))>>]

\* A subtitle read from a frame-based file.
FrameRow(fr, show, hide) ==
    [time |-> <<frame_to_time(fr, show), frame_to_time(fr, hide),
                get_time_duration(frame_to_time(fr, show),
                                  frame_to_time(fr, hide))>>,
     frame |-> <<show, hide, get_frame_duration(show, hide)>>]

\* The opened document: shows and hides in the unit of the mode, ordered
\* by show.  Its first two subtitles are shown at once.
TimeDocuments ==
    {[positions |-> << <<0, 80>>, <<0, 80>>, <<200, 280>> >>,
      main_texts |-> <<"a", "b", "c">>, tran_texts |-> <<"x", "y", "">>]}

FrameDocuments ==
    {[positions |-> << <<0, 2>>, <<0, 2>>, <<5, 7>> >>,
      main_texts |-> <<"a", "b", "c">>, tran_texts |-> <<"x", "y", "">>]}

\* What an earlier copy has left on the clipboard.
Clipboards == {<<Some("p"), None, Some("q")>>}

\* Values passed to set_time (ms) and set_frame.
TimeValues == {0, 100, 300}
FrameValues == {0, 9}

\* Values passed to set_text, and texts passed to the replace methods.
TextValues ==
    {[type |-> "unicode", repr |-> "a"], [type |-> "int", repr |-> "7"]}
NewTexts(rows) == [i \in 1..Len(rows) |-> IF i % 2 = 1 THEN "n" ELSE "m"]

RowsOf(s) == 0..(Len(s.times) - 1)

\* The rows of a selection, in ascending order.
RECURSIVE Ascending(_)
Ascending(selection) ==
    IF selection = {} THEN <<>>
    ELSE LET low == CHOOSE r \in selection : \A q \in selection : r <= q
         IN <<low>> \o Ascending(selection \ {low})

\* Selections of rows.
RowListsOf(s) == {Ascending(sel) : sel \in SUBSET RowsOf(s) \ {{}}}

Rows == RowsOf(Self)
RowLists == RowListsOf(Self)

\* ----------------------------------------------------------------------
\* The state machine.

\* No text has been handed to a tag converter, and no url to read_url.
NoConversion ==
    [from |-> "", to |-> "", source |-> <<>>, text |-> <<>>,
     stages |-> <<>>]
NoRead ==
    [pc |-> "idle", threads |-> <<>>, outcome |-> "", waited |-> "",
     seen |-> "", returned |-> None]

\* A pattern manager that has read no pattern file.
NoManager ==
    [_patterns |-> <<>>, codes |-> <<>>, patterns |-> <<>>, ret |-> <<>>,
     asked |-> FALSE]

NoCall ==
    [op |-> "", row |-> 0, col |-> 0, value |-> 0, text |-> "",
     document |-> "", rows |-> <<>>, tran_rows |-> <<>>, texts |-> <<>>,
     ret |-> -1, pasted |-> <<>>, registered |-> FALSE,
     undos |-> 0, redos |-> 0, unit |-> "", asked |-> FALSE,
     needs |-> FALSE, error |-> "", data |-> <<>>]

Init ==
    /\ mode \in Modes
    /\ framerate \in Framerates
    /\ \E d \in (IF mode = "TIME" THEN TimeDocuments ELSE FrameDocuments) :
          LET row(i) == IF mode = "TIME"
                        THEN TimeRow(framerate, d.positions[i][1],
                                     d.positions[i][2])
                        ELSE FrameRow(framerate, d.positions[i][1],
                                      d.positions[i][2])
          IN /\ times = [i \in 1..Len(d.positions) |-> row(i).time]
             /\ frames = [i \in 1..Len(d.positions) |-> row(i).frame]
             /\ main_texts = d.main_texts
             /\ tran_texts = d.tran_texts
    /\ clipboard \in Clipboards
    /\ undoables = <<>>
    /\ redoables = <<>>
    /\ call = NoCall
    /\ pre = Self
    /\ post = Data(Self)
    /\ hist = <<>>
    /\ calls = 0
    /\ run = [edits |-> 0, first |-> Data(Self), final |-> Data(Self)]
    /\ notes = <<>>
    /\ conv = NoConversion
    /\ net = NoRead
    /\ manager = NoManager

\* The project takes the state s2 a method has returned.
Store(s2) ==
    /\ times' = s2.times
    /\ frames' = s2.frames
    /\ main_texts' = s2.main_texts
    /\ tran_texts' = s2.tran_texts
    /\ clipboard' = s2.clipboard
    /\ undoables' = s2.undoables
    /\ redoables' = s2.redoables
    /\ notes' = s2.emitted
    /\ UNCHANGED <<mode, framerate, conv, net, manager>>

\* An editing call made by the user (register DO) has returned s2.
Called(c, s2) ==
    /\ Store(s2)
    /\ call' = [c EXCEPT !.registered = Len(s2.undoables) > Len(undoables),
                         !.undos = Len(s2.undoables),
                         !.redos = Len(s2.redoables)]
    /\ pre' = Self
    /\ post' = Data(s2)
    /\ hist' = <<>>
    /\ calls' = calls + 1
    /\ run' = IF Len(s2.undoables) > Len(undoables)
              THEN (IF hist = <<>>
                    THEN [run EXCEPT !.edits = @ + 1, !.final = Data(s2)]
                    ELSE [edits |-> 1, first |-> Data(Self),
                          final |-> Data(s2)])
              ELSE run

Edit(c, s2) == calls < MaxDo /\ Called(c, s2)

SetTime ==
    \E row \in Rows, col \in Cols, value \in TimeValues :
       LET s2 == set_time(Self, row, col, value, "DO")
       IN Edit([NoCall EXCEPT !.op = "set_time", !.row = row, !.col = col,
                              !.value = value, !.ret = s2.ret], s2)

SetFrame ==
    \E row \in Rows, col \in Cols, value \in FrameValues :
       LET s2 == set_frame(Self, row, col, value, "DO")
       IN Edit([NoCall EXCEPT !.op = "set_frame", !.row = row, !.col = col,
                              !.value = value, !.ret = s2.ret], s2)

SetText ==
    \E row \in Rows, document \in Documents, value \in TextValues :
       Edit([NoCall EXCEPT !.op = "set_text", !.row = row,
                           !.document = document, !.text = unicode(value)],
            set_text(Self, row, document, value, "DO"))

ReplaceTexts ==
    \E rows \in RowLists, document \in Documents :
       Edit([NoCall EXCEPT !.op = "replace_texts", !.rows = rows,
                           !.document = document, !.texts = NewTexts(rows)],
            replace_texts(Self, rows, document, NewTexts(rows), "DO"))

ReplaceBothTexts ==
    \E main_rows \in RowLists :
       LET tran_rows == <<Len(times) - 1>>
       IN Edit([NoCall EXCEPT !.op = "replace_both_texts", !.rows = main_rows,
                              !.tran_rows = tran_rows,
                              !.texts = NewTexts(main_rows)],
               replace_both_texts(Self, main_rows, tran_rows,
                                  NewTexts(main_rows), NewTexts(tran_rows),
                                  "DO"))

InsertSubtitles ==
    \E start_row \in 0..Len(times), amount \in 1..2 :
       /\ Len(times) + amount <= MaxRows
       /\ LET rows == Range(start_row, start_row + amount - 1)
          IN Edit([NoCall EXCEPT !.op = "insert_subtitles", !.rows = rows],
                  insert_subtitles(Self, rows, <<>>, <<>>, <<>>, <<>>,
                                   TRUE, "DO"))

RemoveSubtitles ==
    \E rows \in RowLists :
       Edit([NoCall EXCEPT !.op = "remove_subtitles", !.rows = rows],
            remove_subtitles(Self, rows, "DO"))

ClearTexts ==
    \E rows \in RowLists, document \in Documents :
       Edit([NoCall EXCEPT !.op = "clear_texts", !.rows = rows,
                           !.document = document],
            clear_texts(Self, rows, document, "DO"))

CopyTexts ==
    \E rows \in RowLists, document \in Documents :
       Edit([NoCall EXCEPT !.op = "copy_texts", !.rows = rows,
                           !.document = document],
            copy_texts(Self, rows, document))

CutTexts ==
    \E rows \in RowLists, document \in Documents :
       Edit([NoCall EXCEPT !.op = "cut_texts", !.rows = rows,
                           !.document = document],
            cut_texts(Self, rows, document, "DO"))

PasteTexts ==
    \E start_row \in Rows, document \in Documents :
       /\ start_row + Len(clipboard) <= MaxRows
       /\ LET s2 == paste_texts(Self, start_row, document, "DO")
          IN Edit([NoCall EXCEPT !.op = "paste_texts", !.row = start_row,
                                 !.document = document, !.pasted = s2.ret],
                  s2)

\* The orders of undo and redo calls followed after an editing call:
\* undo, redo, undo, redo; after k edits, k undos then k redos; and a
\* redo alone.
Repeat(name, k) == [i \in 1..k |-> name]

Followed ==
    {<<"undo", "redo", "undo", "redo">>, <<"redo">>}
    \cup {Repeat("undo", k) \o Repeat("redo", k) : k \in 1..MaxDo}

CanFollow(name) ==
    \E order \in Followed :
       /\ Len(hist) < Len(order)
       /\ SubSeq(order, 1, Len(hist) + 1) = Append(hist, name)

Undo ==
    /\ CanFollow("undo")
    /\ Store(undo(Self))
    /\ hist' = Append(hist, "undo")
    /\ UNCHANGED <<call, pre, post, calls, run>>

Redo ==
    /\ CanFollow("redo")
    /\ Store(redo(Self))
    /\ hist' = Append(hist, "redo")
    /\ UNCHANGED <<call, pre, post, calls, run>>

Next ==
    \/ SetTime
    \/ SetFrame
    \/ SetText
    \/ ReplaceTexts
    \/ ReplaceBothTexts
    \/ InsertSubtitles
    \/ RemoveSubtitles
    \/ ClearTexts
    \/ CopyTexts
    \/ CutTexts
    \/ PasteTexts
    \/ Undo
    \/ Redo

Spec == Init /\ [][Next]_vars

\* Edits that follow undone edits: the text of the first row is set and
\* the clipboard is pasted over the last two rows, which adds rows.
FreshSetText ==
    \E value \in TextValues :
       /\ calls < MaxEdits
       /\ Called([NoCall EXCEPT !.op = "set_text", !.row = 0,
                                !.document = "MAIN", !.text = unicode(value)],
                 set_text(Self, 0, "MAIN", value, "DO"))

FreshPasteTexts ==
    LET start_row == Len(times) - 2
        s2 == paste_texts(Self, start_row, "MAIN", "DO")
    IN /\ calls < MaxEdits
       /\ start_row + Len(clipboard) <= MaxRows
       /\ Called([NoCall EXCEPT !.op = "paste_texts", !.row = start_row,
                                !.document = "MAIN", !.pasted = s2.ret],
                 s2)

NextStacks ==
    \/ FreshSetText
    \/ FreshPasteTexts
    \/ Undo
    \/ Redo

SpecStacks == Init /\ [][NextStacks]_vars

\* ----------------------------------------------------------------------
\* Asking whether a show value needs a resort, then committing it.

\* Opened documents where subtitles overlap: the first two are shown at
\* once, or the first two are hidden at once.
ResortTimeDocuments ==
    TimeDocuments \cup
    {[positions |-> << <<0, 280>>, <<200, 280>>, <<300, 380>> >>,
      main_texts |-> <<"a", "b", "c">>, tran_texts |-> <<"x", "y", "">>]}

ResortFrameDocuments ==
    FrameDocuments \cup
    {[positions |-> << <<0, 7>>, <<5, 7>>, <<9, 11>> >>,
      main_texts |-> <<"a", "b", "c">>, tran_texts |-> <<"x", "y", "">>]}

\* Show values asked about: times (ms) and frames.
ShowValues ==
    {ShowTime(v) : v \in TimeValues} \cup {ShowFrame(v) : v \in FrameValues}

InitResort ==
    /\ mode \in Modes
    /\ framerate \in Framerates
    /\ \E d \in (IF mode = "TIME" THEN ResortTimeDocuments
                ELSE ResortFrameDocuments) :
          LET row(i) == IF mode = "TIME"
                        THEN TimeRow(framerate, d.positions[i][1],
                                     d.positions[i][2])
                        ELSE FrameRow(framerate, d.positions[i][1],
                                      d.positions[i][2])
          IN /\ times = [i \in 1..Len(d.positions) |-> row(i).time]
             /\ frames = [i \in 1..Len(d.positions) |-> row(i).frame]
             /\ main_texts = d.main_texts
             /\ tran_texts = d.tran_texts
    /\ clipboard \in Clipboards
    /\ undoables = <<>>
    /\ redoables = <<>>
    /\ call = NoCall
    /\ pre = Self
    /\ post = Data(Self)
    /\ hist = <<>>
    /\ calls = 0
    /\ run = [edits |-> 0, first |-> Data(Self), final |-> Data(Self)]
    /\ notes = <<>>
    /\ conv = NoConversion
    /\ net = NoRead
    /\ manager = NoManager

\* The user interface asks before a show value is committed.
GetNeedsResort ==
    \E row \in Rows, show_value \in ShowValues :
       LET s2 == get_needs_resort(Self, row, show_value)
       IN /\ calls <= MaxEdits
          /\ call.op # "get_needs_resort"
          /\ Called([NoCall EXCEPT !.op = "get_needs_resort", !.row = row,
                                   !.col = cSHOW,
                                   !.value = show_value.value,
                                   !.unit = show_value.unit,
                                   !.asked = TRUE, !.needs = s2.ret], s2)

\* The show value asked about is committed: a time through set_time, a
\* frame through set_frame.
CommitShow ==
    /\ call.op = "get_needs_resort"
    /\ hist = <<>>
    /\ LET s2 == IF call.unit = "time"
                 THEN set_time(Self, call.row, cSHOW, call.value, "DO")
                 ELSE set_frame(Self, call.row, cSHOW, call.value, "DO")
       IN Called([call EXCEPT !.op = IF call.unit = "time" THEN "set_time"
                                     ELSE "set_frame",
                              !.ret = s2.ret], s2)

NextResort ==
    \/ FreshSetText
    \/ GetNeedsResort
    \/ CommitShow
    \/ Undo
    \/ Redo

SpecResort == InitResort /\ [][NextResort]_vars

\* ----------------------------------------------------------------------
\* Texts handed to a tag converter.

\* Lines a text may have.
MaxLines == 2

\* The plain text of the i-th line.
Words(i) == IF i = 1 THEN "Whenever" ELSE "people"

\* The i-th line of a text of a format: plain, or plain after a tag; in
\* SSA a reset tag and more plain text may follow.  The MicroDVD tag of
\* a whole subtitle stands at the start of the subtitle.
LinesOf(format, i) ==
    CASE format = "MICRODVD" ->
            {<<Words(i)>>}
            \cup {<<tag, Words(i)>> :
                     tag \in {"{y:biu}", "{y:bi}", "{y:i}", "{c:$rrggbb}"}}
            \cup {<<"{Y:i}", Words(i)>> : first \in {i} \cap {1}}
      [] format = "SSA" ->
            LET heads == {<<Words(i)>>}
                         \cup {<<tag, Words(i)>> :
                                  tag \in {"{\\i1}", "{\\b1}",
                                           "{\\c&Hffffff&}"}}
            IN heads \cup {head \o <<"{\\r}", " there">> : head \in heads}

\* The texts of n lines.
RECURSIVE TextsOfLines(_, _)
TextsOfLines(format, n) ==
    IF n = 1 THEN LinesOf(format, 1)
    ELSE {text \o <<NewLine>> \o line :
             text \in TextsOfLines(format, n - 1),
             line \in LinesOf(format, n)}

TaggedTexts(format) ==
    {<<>>} \cup UNION {TextsOfLines(format, n) : n \in 1..MaxLines}

\* Text read from a file of a tagged format is converted to SubRip.
ConvertTags ==
    \E from_format \in {"MICRODVD", "SSA"} :
       \E text \in TaggedTexts(from_format) :
          LET converter == TagConverter(from_format, "SUBRIP")
              converted == convert_tags(converter, text)
          IN /\ conv.from = ""
             /\ conv' = [from |-> from_format, to |-> "SUBRIP",
                         source |-> text, text |-> converted.text,
                         stages |-> converted.stages]
             /\ UNCHANGED <<times, frames, main_texts, tran_texts,
                            clipboard, undoables, redoables, mode,
                            framerate, call, pre, post, hist, calls, run,
                            notes, net, manager>>

NextTags == ConvertTags

SpecTags == Init /\ [][NextTags]_vars

\* ----------------------------------------------------------------------
\* wwwlib: reading of a remote document in a thread.
\*
\* net.pc is the statement read_url is at: "idle" (not called, or
\* returned), "join" (in thread.join(timeout)), "error" (about to test
\* thread.error), "text" (about to test thread.text).  A thread is
\* "reading" in urllib.urlopen(url).read(), has "read" once text or error
\* is assigned, and has "ended" once run has returned.

Urls == {"http://a", "http://b"}

\* URLReadThread.__init__; written lists the fields run has assigned.
URLReadThread(url) ==
    [url |-> url, text |-> None, error |-> None, phase |-> "reading",
     written |-> <<>>]

\* What read_url and the threads leave alone.
rest ==
    <<times, frames, main_texts, tran_texts, clipboard, undoables,
      redoables, mode, framerate, call, pre, post, hist, calls, run, notes,
      conv, manager>>

\* The thread of the call of read_url under way, or of the last call.
thread == net.threads[Len(net.threads)]

\* thread = URLReadThread(url); thread.start()
ReadUrl ==
    \E url \in Urls :
       /\ net.pc = "idle"
       /\ Len(net.threads) < MaxReads
       /\ net' = [pc |-> "join",
                  threads |-> Append(net.threads, URLReadThread(url)),
                  outcome |-> "", waited |-> "", seen |-> "",
                  returned |-> None]
       /\ UNCHANGED rest

\* run: self.text = urllib.urlopen(self.url).read()
ReadSucceeds ==
    \E i \in 1..Len(net.threads) :
       /\ net.threads[i].phase = "reading"
       /\ net' = [net EXCEPT !.threads[i].text = Some("document"),
                             !.threads[i].written = Append(@, "text"),
                             !.threads[i].phase = "read"]
       /\ UNCHANGED rest

\* run: except IOError: self.error = sys.exc_info()[1]
ReadFails ==
    \E i \in 1..Len(net.threads) :
       /\ net.threads[i].phase = "reading"
       /\ net' = [net EXCEPT !.threads[i].error = Some("IOError"),
                             !.threads[i].written = Append(@, "error"),
                             !.threads[i].phase = "read"]
       /\ UNCHANGED rest

\* run returns: the thread is no longer alive.
ThreadEnds ==
    \E i \in 1..Len(net.threads) :
       /\ net.threads[i].phase = "read"
       /\ net' = [net EXCEPT !.threads[i].phase = "ended"]
       /\ UNCHANGED rest

\* thread.join(timeout) returns because the thread has ended.
JoinReturns ==
    /\ net.pc = "join"
    /\ thread.phase = "ended"
    /\ net' = [net EXCEPT !.pc = "error", !.waited = "ended",
                          !.seen = thread.phase]
    /\ UNCHANGED rest

\* thread.join(timeout) returns because the timeout has elapsed: the
\* thread is alive and goes on.
JoinTimesOut ==
    /\ net.pc = "join"
    /\ thread.phase # "ended"
    /\ net' = [net EXCEPT !.pc = "error", !.waited = "timeout",
                          !.seen = thread.phase]
    /\ UNCHANGED rest

\* if thread.error is not None: raise thread.error
CheckError ==
    /\ net.pc = "error"
    /\ net' = IF ~thread.error.none
              THEN [net EXCEPT !.pc = "idle", !.outcome = "IOError"]
              ELSE [net EXCEPT !.pc = "text"]
    /\ UNCHANGED rest

\* The test below left out: read_url goes on to return thread.text.
CheckText_untested ==
    /\ net.pc = "text"
    /\ net' = [net EXCEPT !.pc = "return"]
    /\ UNCHANGED rest

\* if thread.text is None: raise TimeoutError
CheckText ==
    /\ net.pc = "text"
    /\ net' = IF thread.text.none
              THEN [net EXCEPT !.pc = "idle", !.outcome = "TimeoutError"]
              ELSE [net EXCEPT !.pc = "return"]
    /\ UNCHANGED rest

\* return thread.text: the field is read again.
ReturnText ==
    /\ net.pc = "return"
    /\ net' = [net EXCEPT !.pc = "idle", !.outcome = "text",
                          !.returned = thread.text]
    /\ UNCHANGED rest

NextNet ==
    \/ ReadUrl
    \/ ReadSucceeds
    \/ ReadFails
    \/ ThreadEnds
    \/ JoinReturns
    \/ JoinTimesOut
    \/ CheckError
    \/ CheckText
    \/ ReturnText

SpecNet == Init /\ [][NextNet]_vars

\* ----------------------------------------------------------------------
\* Blank subtitles inserted in short documents.

\* Opened documents: none, one or two subtitles, with a gap before the
\* first and between the two; and two subtitles that overlap.
BlankTimeDocuments ==
    {[positions |-> <<>>],
     [positions |-> << <<100, 180>> >>],
     [positions |-> << <<10, 80>>, <<180, 280>> >>],
     [positions |-> << <<0, 120>>, <<100, 200>> >>]}

BlankFrameDocuments ==
    {[positions |-> <<>>],
     [positions |-> << <<5, 7>> >>],
     [positions |-> << <<1, 2>>, <<7, 9>> >>],
     [positions |-> << <<0, 4>>, <<3, 6>> >>]}

InitBlank ==
    /\ mode \in Modes
    /\ framerate \in Framerates
    /\ \E d \in (IF mode = "TIME" THEN BlankTimeDocuments
                ELSE BlankFrameDocuments) :
          LET row(i) == IF mode = "TIME"
                        THEN TimeRow(framerate, d.positions[i][1],
                                     d.positions[i][2])
                        ELSE FrameRow(framerate, d.positions[i][1],
                                      d.positions[i][2])
          IN /\ times = [i \in 1..Len(d.positions) |-> row(i).time]
             /\ frames = [i \in 1..Len(d.positions) |-> row(i).frame]
             /\ main_texts = [i \in 1..Len(d.positions) |-> "a"]
             /\ tran_texts = [i \in 1..Len(d.positions) |-> "x"]
    /\ clipboard \in Clipboards
    /\ undoables = <<>>
    /\ redoables = <<>>
    /\ call = NoCall
    /\ pre = Self
    /\ post = Data(Self)
    /\ hist = <<>>
    /\ calls = 0
    /\ run = [edits |-> 0, first |-> Data(Self), final |-> Data(Self)]
    /\ notes = <<>>
    /\ conv = NoConversion
    /\ net = NoRead
    /\ manager = NoManager

\* insert_subtitles(rows) of a range of rows, without data.
InsertBlank ==
    \E start_row \in 0..Len(times), amount \in 1..MaxRows :
       /\ Len(times) + amount <= MaxRows
       /\ LET rows == Range(start_row, start_row + amount - 1)
          IN Edit([NoCall EXCEPT !.op = "insert_subtitles", !.rows = rows],
                  insert_subtitles(Self, rows, <<>>, <<>>, <<>>, <<>>,
                                   TRUE, "DO"))

NextBlank ==
    \/ InsertBlank
    \/ Undo
    \/ Redo

SpecBlank == InitBlank /\ [][NextBlank]_vars

\* ----------------------------------------------------------------------
\* Calls that end in an error: values the calculator cannot convert and
\* data sequences shorter than the rows.

SetTimeValue ==
    \E row \in Rows, col \in Cols, value \in TimeValues \cup {Malformed} :
       LET s2 == set_time(Self, row, col, value, "DO")
       IN Edit([NoCall EXCEPT !.op = "set_time", !.row = row, !.col = col,
                              !.value = value, !.ret = s2.ret,
                              !.error = s2.error], s2)

SetFrameValue ==
    \E row \in Rows, col \in Cols, value \in FrameValues \cup {Malformed} :
       LET s2 == set_frame(Self, row, col, value, "DO")
       IN Edit([NoCall EXCEPT !.op = "set_frame", !.row = row, !.col = col,
                              !.value = value, !.ret = s2.ret,
                              !.error = s2.error], s2)

\* The i-th subtitle of the data handed to insert_subtitles.
DataRow(i) == TimeRow(framerate, 400 + 100 * i, 480 + 100 * i)

\* The lengths of times, frames, main_texts and tran_texts handed over
\* for amount rows: all of that length, or one of them a subtitle short
\* or a subtitle long.
Lengths(amount) ==
    {[k \in 1..4 |-> IF k = short THEN amount + by ELSE amount] :
        short \in 0..4, by \in {-1, 1}}

InsertSubtitlesData ==
    \E start_row \in 0..Len(times), amount \in 1..2 :
       \E lengths \in Lengths(amount) :
          /\ Len(times) + amount <= MaxRows
          /\ LET rows == Range(start_row, start_row + amount - 1)
                 nt == lengths[1]
                 nf == lengths[2]
                 nm == lengths[3]
                 nn == lengths[4]
                 s2 == insert_subtitles(
                           Self, rows,
                           [i \in 1..nt |-> DataRow(i).time],
                           [i \in 1..nf |-> DataRow(i).frame],
                           [i \in 1..nm |-> "n"], [i \in 1..nn |-> ""],
                           FALSE, "DO")
             IN Edit([NoCall EXCEPT !.op = "insert_subtitles",
                                    !.rows = rows,
                                    !.data = lengths,
                                    !.error = s2.error], s2)

NextErrors ==
    \/ SetTimeValue
    \/ SetFrameValue
    \/ InsertSubtitlesData
    \/ Undo
    \/ Redo

SpecErrors == Init /\ [][NextErrors]_vars

\* ----------------------------------------------------------------------
\* Properties of the reversion of edits.

\* The last editing call was set_time or set_frame.
PositionCall == call.op \in {"set_time", "set_frame"}

\* The value that call found stored in the list it compares with.
StoredBefore ==
    IF call.op = "set_time" THEN At(pre.times, call.row)[call.col]
    ELSE At(pre.frames, call.row)[call.col]

\* The methods that change the data.
MutatingOps ==
    {"set_time", "set_frame", "set_text", "replace_texts",
     "replace_both_texts", "insert_subtitles", "remove_subtitles",
     "clear_texts", "cut_texts", "paste_texts"}

\* C1: after set_time or set_frame on the HIDE or DURN column of any row
\* with a value different from the stored one, in either mode, a single
\* undo() leaves times, frames, main_texts and tran_texts exactly as they
\* were before the call.
C1_UndoRestoresHideDurnEdit ==
    (/\ PositionCall
     /\ call.col \in {cHIDE, cDURN}
     /\ call.value # StoredBefore
     /\ hist = <<"undo">>)
    => Data(Self) = Data(pre)

\* C2: when set_time or set_frame on the SHOW column has moved the row to
\* another index, a single undo() puts the row back at its old index and
\* restores the order and contents of all four lists, texts included.
C2_UndoRestoresMovedRow ==
    (/\ PositionCall
     /\ call.col = cSHOW
     /\ call.ret # call.row
     /\ hist = <<"undo">>)
    => Data(Self) = Data(pre)

\* C3: for every method that has changed the data, undo(); redo() gives
\* the four lists as they were right after the call, and a second undo();
\* redo() gives first the lists before the call and then those after it.
C3_UndoRedoTwice ==
    (call.op \in MutatingOps /\ post # Data(pre))
    => /\ hist = <<"undo", "redo">> => Data(Self) = post
       /\ hist = <<"undo", "redo", "undo">> => Data(Self) = Data(pre)
       /\ hist = <<"undo", "redo", "undo", "redo">> => Data(Self) = post

\* C4: after k registered edits in a row, k undo() calls restore the four
\* lists to what they were before the first edit and k more redo() calls
\* restore what they were after the k-th edit.
C4_UndoAllRedoAll ==
    run.edits >= 1
    => /\ hist = Repeat("undo", run.edits) => Data(Self) = run.first
       /\ hist = Repeat("undo", run.edits) \o Repeat("redo", run.edits)
          => Data(Self) = run.final

\* ----------------------------------------------------------------------
\* Properties of the order of rows.

ShowSorted(positions) ==
    \A i \in 1..(Len(positions) - 1) :
       positions[i][cSHOW] <= positions[i + 1][cSHOW]

LexSorted(positions) ==
    \A i \in 1..(Len(positions) - 1) :
       ~ListLess(positions[i + 1], positions[i])

\* C5: from a document sorted by show, after any sequence of operations
\* the shows of the positions of the mode (times in time mode, frames in
\* frame mode) do not decrease with the row index.
C5_ShowsAscend == ShowSorted(get_positions(Self))

\* C6: after every completed operation the rows are in ascending
\* lexicographic order of the (show, hide, duration) lists of the mode,
\* rows of equal show being ordered by hide and then by duration, also
\* after an edit of a hide or of a duration.  Stated for set_time and
\* set_frame on rows that were in that order.
C6_RowsLexSorted ==
    (PositionCall /\ hist = <<>> /\ LexSorted(get_positions(pre)))
    => LexSorted(get_positions(Self))

\* C6, as the code has it: set_time or set_frame resorts on a change of
\* show only.  An edit of SHOW on rows in lexicographic order leaves them
\* in lexicographic order; an edit of HIDE or DURN moves no row: it
\* returns the row it was given and leaves both text lists as they were.
C6_ShowEditKeepsLexOrder ==
    (PositionCall /\ hist = <<>>)
    => /\ (call.col = cSHOW /\ LexSorted(get_positions(pre)))
          => LexSorted(get_positions(Self))
       /\ call.col \in {cHIDE, cDURN}
          => /\ call.ret = call.row
             /\ main_texts = pre.main_texts
             /\ tran_texts = pre.tran_texts

\* A SHOW edit on rows in lexicographic order has moved its row.
C6_ShowEditMovedRow ==
    /\ PositionCall
    /\ hist = <<>>
    /\ call.col = cSHOW
    /\ call.ret # call.row
    /\ LexSorted(get_positions(pre))

\* ----------------------------------------------------------------------
\* Properties of the positions of a row.

\* Every component of the frames is the conversion of that of the times.
FramesConverted ==
    \A row \in Rows, col \in Cols :
       At(frames, row)[col] = time_to_frame(framerate, At(times, row)[col])

\* C7: after set_time or set_frame on any column, every stored frame
\* component of every row equals the calculator's conversion of the
\* stored time component: show, hide and duration alike, the dependent
\* field the edit recalculated included.
C7_FramesAreConvertedTimes ==
    (PositionCall /\ hist = <<>>) => FramesConverted

\* C7, as the code has it: the component the edit writes is converted
\* exactly (the frame is time_to_frame of the time given to set_time, the
\* time is frame_to_time of the frame given to set_frame); the dependent
\* field is calculated inside each unit, not converted.
C7_WrittenComponentConverted ==
    (PositionCall /\ call.registered /\ hist = <<>>)
    => IF call.op = "set_time"
       THEN /\ At(times, call.ret)[call.col] = call.value
            /\ At(frames, call.ret)[call.col]
               = time_to_frame(framerate, call.value)
       ELSE /\ At(frames, call.ret)[call.col] = call.value
            /\ At(times, call.ret)[call.col]
               = frame_to_time(framerate, call.value)

\* set_time has written a time and the frame duration it recalculated is
\* not the conversion of the time duration.
C7_DependentFieldNotConverted ==
    /\ call.op = "set_time"
    /\ call.registered
    /\ hist = <<>>
    /\ At(frames, call.ret)[cDURN]
       # time_to_frame(framerate, At(times, call.ret)[cDURN])

\* C8: after every completed set_time, set_frame or insertion of blank
\* subtitles, every row has duration = hide - show in its times and
\* duration = hide - show in its frames.
C8_DurationIsHideMinusShow ==
    \A row \in Rows :
       /\ At(times, row)[cDURN] = At(times, row)[cHIDE] - At(times, row)[cSHOW]
       /\ At(frames, row)[cDURN]
          = At(frames, row)[cHIDE] - At(frames, row)[cSHOW]

\* A duration has been set: the hides were recalculated from it.
C8_DurationWasSet ==
    /\ PositionCall
    /\ call.col = cDURN
    /\ call.registered
    /\ hist = <<>>
    /\ At(frames, call.ret)[cDURN] # At(pre.frames, call.row)[cDURN]

\* The entries of lst whose rows are not among rows.
RECURSIVE Without(_, _, _)
Without(lst, rows, i) ==
    IF i > Len(lst) THEN <<>>
    ELSE (IF InRows(i - 1, rows) THEN <<>> ELSE <<lst[i]>>)
         \o Without(lst, rows, i + 1)

\* C9: after every completed operation times, frames, main_texts and
\* tran_texts have the same length, and a row that was moved or removed
\* was moved or removed at the same index in all four.
C9_ListsParallel ==
    /\ Len(times) = Len(frames)
    /\ Len(times) = Len(main_texts)
    /\ Len(times) = Len(tran_texts)
    /\ (PositionCall /\ hist = <<>> /\ call.ret # call.row)
       => /\ \A k \in 1..4 :
                ListPop(Data(Self)[k], call.ret)
                = ListPop(Data(pre)[k], call.row)
          /\ At(main_texts, call.ret) = At(pre.main_texts, call.row)
          /\ At(tran_texts, call.ret) = At(pre.tran_texts, call.row)
    /\ (call.op = "remove_subtitles" /\ hist = <<>>)
       => \A k \in 1..4 :
             Data(Self)[k] = Without(Data(pre)[k], call.rows, 1)

\* A row with texts of its own was moved past another row.
C9_RowMovedWithTexts ==
    /\ PositionCall
    /\ hist = <<>>
    /\ call.ret # call.row
    /\ At(main_texts, call.ret) # At(main_texts, call.row)
    /\ Len(times) = Len(main_texts)

\* The last call gave set_time, set_frame or set_text the stored value.
UnchangedWrite ==
    \/ PositionCall /\ call.value = StoredBefore
    \/ /\ call.op = "set_text"
       /\ call.text = At(Texts(pre, call.document), call.row)

\* C10: set_time with the stored time, set_frame with the stored frame
\* and set_text with the stored text register no action, leave the four
\* lists and both stacks as they were and (set_time, set_frame) return
\* the row they were given.
C10_UnchangedWriteIsNoOp ==
    (UnchangedWrite /\ hist = <<>>)
    => /\ ~call.registered
       /\ Data(Self) = Data(pre)
       /\ undoables = pre.undoables
       /\ redoables = pre.redoables
       /\ PositionCall => call.ret = call.row

\* set_frame was given the frame it has stored.
C10_StoredFrameWritten ==
    /\ call.op = "set_frame"
    /\ call.value = StoredBefore
    /\ hist = <<>>
    /\ call.ret = call.row

\* ----------------------------------------------------------------------
\* Properties of the reversion of pastes, removals, insertions and texts.

\* The last call was a paste that reached past the last row.
ExtendingPaste ==
    /\ call.op = "paste_texts"
    /\ call.row + Len(pre.clipboard) > Len(pre.times)

\* C11: a paste of a clipboard that reaches past the last row followed by
\* one undo() reverts both the insertion of blank rows and the writing of
\* the texts: the number of rows and all four lists are as before the
\* paste.
C11_ExtendingPasteUndoneAtOnce ==
    (ExtendingPaste /\ hist = <<"undo">>)
    => /\ Len(times) = Len(pre.times)
       /\ Data(Self) = Data(pre)

\* An extending paste has added rows and one undo() was made.
C11_ExtendingPasteUndone ==
    /\ ExtendingPaste
    /\ hist = <<"undo">>
    /\ Len(post[1]) > Len(pre.times)
    /\ post[3] # pre.main_texts \/ post[4] # pre.tran_texts

\* The entries of lst at rows, in the order of rows.
Picked(lst, rows) == [i \in 1..Len(rows) |-> At(lst, rows[i])]

\* C12: remove_subtitles of any distinct rows, adjacent or not, removes
\* them from all four lists and records the removed times, frames and
\* texts in ascending order of row as the arguments of its revert; one
\* undo() inserts them again so that the four lists are as before, and
\* insert_subtitles followed by undo() gives the lists before the
\* insertion.
C12_RemoveAndInsertUndone ==
    /\ (call.op = "remove_subtitles" /\ hist = <<>>)
       => LET action == Head(undoables).actions[1]
          IN /\ \A k \in 1..4 :
                   Data(Self)[k] = Without(Data(pre)[k], call.rows, 1)
             /\ action.revert_method = "insert_subtitles"
             /\ action.rows = call.rows
             /\ action.times = Picked(pre.times, call.rows)
             /\ action.frames = Picked(pre.frames, call.rows)
             /\ action.texts = Picked(pre.main_texts, call.rows)
             /\ action.more_texts = Picked(pre.tran_texts, call.rows)
    /\ (call.op \in {"remove_subtitles", "insert_subtitles"}
        /\ hist = <<"undo">>)
       => Data(Self) = Data(pre)

\* Two rows that are not adjacent were removed and one undo() was made.
C12_SeparateRowsRemovedUndone ==
    /\ call.op = "remove_subtitles"
    /\ call.rows = <<0, 2>>
    /\ hist = <<"undo">>
    /\ Len(post[1]) = Len(pre.times) - 2

\* The methods that write texts.
TextOps ==
    {"set_text", "replace_texts", "replace_both_texts", "clear_texts",
     "cut_texts", "paste_texts"}

\* C13: for every text method (set_text, replace_texts,
\* replace_both_texts, clear_texts, cut_texts, paste_texts that adds no
\* row) on any rows and either document, one undo() gives main_texts and
\* tran_texts as they were before the call.
C13_TextsUndone ==
    (/\ call.op \in TextOps
     /\ call.registered
     /\ ~ExtendingPaste
     /\ hist = <<"undo">>)
    => /\ main_texts = pre.main_texts
       /\ tran_texts = pre.tran_texts

\* Texts of both documents were replaced and one undo() was made.
C13_BothTextsReplacedUndone ==
    /\ call.op = "replace_both_texts"
    /\ hist = <<"undo">>
    /\ post[3] # pre.main_texts
    /\ post[4] # pre.tran_texts

\* ----------------------------------------------------------------------
\* Properties of the stacks.

\* C14: the registration of a new action (not one of undo or redo) puts
\* exactly one action on top of the undo stack and empties the redo
\* stack, so that after undo() and a fresh edit, redo() changes nothing.
C14_FreshEditEmptiesRedo ==
    /\ (call.registered /\ hist = <<>>)
       => /\ Len(undoables) = Len(pre.undoables) + 1
          /\ redoables = <<>>
    /\ (call.registered /\ hist = <<"redo">>)
       => /\ Data(Self) = post
          /\ Len(undoables) = call.undos
          /\ redoables = <<>>

\* C14, as registration is specified: a new action registered while its
\* signal is not blocked goes alone on top of the undo stack and empties
\* the redo stack, and a redo() after it changes nothing.  The actions
\* of a paste that adds rows are registered while the signal is blocked:
\* they make one entry on top of the undo stack and the redo stack keeps
\* what it held.
C14_UnblockedEditEmptiesRedo ==
    /\ (call.registered /\ ~ExtendingPaste /\ hist = <<>>)
       => /\ Len(undoables) = Len(pre.undoables) + 1
          /\ redoables = <<>>
    /\ (call.registered /\ ~ExtendingPaste /\ hist = <<"redo">>)
       => /\ Data(Self) = post
          /\ Len(undoables) = call.undos
          /\ redoables = <<>>
    /\ (ExtendingPaste /\ hist = <<>>)
       => /\ Len(undoables) = Len(pre.undoables) + 1
          /\ redoables = pre.redoables

\* An edit was undone, a fresh edit was made and redo() was called.
C14_RedoAfterFreshEdit ==
    /\ call.registered
    /\ ~ExtendingPaste
    /\ pre.redoables # <<>>
    /\ hist = <<"redo">>

\* C15: undo() on a non-empty undo stack takes exactly the top action
\* off the undo stack, runs its revert and leaves exactly one action for
\* it on top of the redo stack; redo() does the converse; neither changes
\* the number of actions the two stacks hold together, also when the
\* revert turns out to write the value already stored.
C15_UndoRedoMoveOneAction ==
    /\ (call.registered /\ hist = <<"undo">>)
       => /\ Len(undoables) = call.undos - 1
          /\ Len(redoables) = call.redos + 1
    /\ (call.registered /\ hist = <<"undo", "redo">>)
       => /\ Len(undoables) = call.undos
          /\ Len(redoables) = call.redos

\* C16: undo() with an empty undo stack and redo() with an empty redo
\* stack do nothing: they raise no error and leave the four lists and
\* both stacks as they were.
C16_NothingToRevert ==
    /\ (call.op = "" /\ hist # <<>>)
       => /\ Data(Self) = Data(pre)
          /\ undoables = <<>>
          /\ redoables = <<>>
          /\ notes = <<>>
    /\ (calls = 1 /\ call.registered /\ hist = <<"redo">>)
       => /\ Data(Self) = post
          /\ Len(undoables) = call.undos
          /\ redoables = <<>>
          /\ notes = <<>>

\* undo() and then redo() were called on a project nothing was done to.
C16_RevertedNothing ==
    /\ call.op = ""
    /\ calls = 0
    /\ hist = <<"undo", "redo">>

\* The revert methods of the actions of an entry, the latest first.
Reverts(entry) ==
    [i \in 1..Len(entry.actions) |-> entry.actions[i].revert_method]

\* C17: grouping replaces the top n actions of the undo stack by one
\* entry with the description given by the caller; one undo() of it runs
\* the n reverts, the latest registered first, one redo() applies all n
\* again, and no undo() or redo() reverts or applies a part of the group.
\* Stated for the group of two a paste that adds rows makes.
C17_GroupRevertedAsOne ==
    /\ (ExtendingPaste /\ hist = <<>>)
       => /\ Len(undoables) = Len(pre.undoables) + 1
          /\ Head(undoables).description = "Pasting texts"
          /\ Reverts(Head(undoables)) = <<"replace_texts", "remove_subtitles">>
    /\ (ExtendingPaste /\ hist = <<"undo">>)
       => /\ Data(Self) = Data(pre)
          /\ Len(undoables) = Len(pre.undoables)
          /\ Head(redoables).description = "Pasting texts"
          /\ Reverts(Head(redoables)) = <<"insert_subtitles", "replace_texts">>
    /\ (ExtendingPaste /\ hist = <<"undo", "redo">>)
       => /\ Data(Self) = post
          /\ Len(undoables) = Len(pre.undoables) + 1
          /\ Head(undoables).description = "Pasting texts"
          /\ Reverts(Head(undoables)) = <<"replace_texts", "remove_subtitles">>
    /\ (ExtendingPaste
        /\ hist \in {<<>>, <<"undo">>, <<"undo", "redo">>,
                     <<"undo", "redo", "undo">>,
                     <<"undo", "redo", "undo", "redo">>})
       => Data(Self) \in {Data(pre), post}

\* The group of a paste that added rows was undone and redone.
C17_GroupUndoneRedone ==
    /\ ExtendingPaste
    /\ hist = <<"undo", "redo">>
    /\ Len(Head(undoables).actions) = 2
    /\ post # Data(pre)

\* C18: during a paste that adds rows the action signal is blocked
\* before the blank rows are inserted and unblocked only after the texts
\* are written: observers are sent the signal at most once for the paste
\* and never see the data with only the rows inserted.
C18_PasteNotifiedOnce ==
    (ExtendingPaste /\ hist = <<>>)
    => /\ Len(notes) <= 1
       /\ \A i \in 1..Len(notes) :
             /\ notes[i].signal = "action_done"
             /\ notes[i].data = post

\* A paste has added rows and written texts, and observers were sent the
\* signal with both done.
C18_ExtendingPasteNotified ==
    /\ ExtendingPaste
    /\ hist = <<>>
    /\ Len(post[1]) > Len(pre.times)
    /\ post[3] # pre.main_texts \/ post[4] # pre.tran_texts
    /\ Len(notes) = 1

\* ----------------------------------------------------------------------
\* Properties of the revert and of the index of an edited row.

\* C19: the revert recorded by set_time and set_frame is for the
\* positions of the mode: in time mode both record set_time with the
\* original time of the row, in frame mode both record set_frame with
\* its original frame; the row recorded is the index of the row after
\* the edit.
C19_RevertInUnitOfMode ==
    (PositionCall /\ call.registered /\ hist = <<>>)
    => LET action == Head(undoables).actions[1]
       IN /\ Len(Head(undoables).actions) = 1
          /\ action.revert_method
             = (IF mode = "TIME" THEN "set_time" ELSE "set_frame")
          /\ action.value = At(get_positions(pre), call.row)[call.col]
          /\ action.col = call.col
          /\ action.row = call.ret
          /\ IF call.op = "set_time"
             THEN At(times, action.row)[call.col] = call.value
             ELSE At(frames, action.row)[call.col] = call.value

\* set_frame in time mode has moved a row and recorded its revert.
C19_FrameSetInTimeMode ==
    /\ call.op = "set_frame"
    /\ mode = "TIME"
    /\ call.registered
    /\ call.ret # call.row
    /\ hist = <<>>
    /\ Head(undoables).actions[1].revert_method = "set_time"

\* The rightmost insertion point of item in the ordered list lst: the
\* number of its entries that are not greater than item.
UpperBound(lst, item) ==
    Cardinality({i \in 1..Len(lst) : ~ListLess(item, lst[i])})

\* C20: after an edit of SHOW on a row, the index set_time / set_frame
\* returns is the upper bound (rightmost insertion point) of the new
\* [show, hide, duration] of the row among those of all other rows, in
\* the positions of the mode, and the entries of the row in all four
\* lists are at that index.  The other rows are in order, as an
\* insertion point requires.
C20_ReturnedIndexIsUpperBound ==
    (/\ PositionCall
     /\ call.col = cSHOW
     /\ call.registered
     /\ hist = <<>>
     /\ LexSorted(ListPop(get_positions(pre), call.row)))
    => LET others == ListPop(get_positions(pre), call.row)
           item == At(get_positions(Self), call.ret)
       IN /\ item[cSHOW] = (IF (call.op = "set_time") = (mode = "TIME")
                            THEN call.value
                            ELSE IF call.op = "set_time"
                            THEN time_to_frame(framerate, call.value)
                            ELSE frame_to_time(framerate, call.value))
          /\ call.ret = UpperBound(others, item)
          /\ \A k \in 1..4 :
                ListPop(Data(Self)[k], call.ret)
                = ListPop(Data(pre)[k], call.row)
          /\ At(main_texts, call.ret) = At(pre.main_texts, call.row)
          /\ At(tran_texts, call.ret) = At(pre.tran_texts, call.row)

\* An edit of SHOW has put the first row after the last.
C20_RowMovedToUpperBound ==
    /\ PositionCall
    /\ call.col = cSHOW
    /\ call.registered
    /\ hist = <<>>
    /\ call.row = 0
    /\ call.ret = Len(times) - 1
    /\ call.ret = UpperBound(ListPop(get_positions(pre), call.row),
                             At(get_positions(Self), call.ret))
\* ----------------------------------------------------------------------
\* Properties of get_needs_resort.

\* The last call committed the show value that was asked about.
Committed == call.asked /\ call.op \in {"set_time", "set_frame"}

\* C21: get_needs_resort(r, v) has returned True exactly when committing
\* v as the show of row r through set_time (a time) or set_frame (a
\* frame) has put the row at an index other than r.
C21_NeedsResortIffRowMoves ==
    Committed /\ hist = <<>> => (call.needs <=> call.ret # call.row)

\* C28: get_needs_resort has left the four lists, the clipboard and both
\* stacks as they were, whatever it has returned.
C28_NeedsResortMutatesNothing ==
    call.op = "get_needs_resort" /\ hist = <<>> =>
        /\ Data(Self) = Data(pre)
        /\ clipboard = pre.clipboard
        /\ undoables = pre.undoables
        /\ redoables = pre.redoables

\* It has returned True with actions on both stacks.
C28_AskedWithActionsStacked ==
    /\ call.op = "get_needs_resort"
    /\ hist = <<>>
    /\ call.needs
    /\ undoables # <<>>
    /\ redoables # <<>>

\* ----------------------------------------------------------------------
\* Properties of calls that end in an error.

\* C22: a set_time or set_frame whose conversion has failed, and an
\* insert_subtitles given data sequences of other lengths than the rows,
\* has ended in error with the four lists as they were and no action
\* registered.
Mismatched ==
    /\ call.op = "insert_subtitles"
    /\ \E k \in 1..Len(call.data) : call.data[k] # Len(call.rows)

C22_ErrorLeavesProjectUnchanged ==
    hist = <<>> =>
        /\ Mismatched => call.error # ""
        /\ call.error # "" =>
              /\ Data(Self) = Data(pre)
              /\ undoables = pre.undoables
              /\ redoables = pre.redoables

\* ----------------------------------------------------------------------
\* Properties of the conversion of tags.

\* The stages of the pipeline of tags, every rule as many times in a row
\* as its entry says, once where the entry says nothing.
RECURSIVE RuleStages(_, _, _)
RuleStages(stage, tags, rule) ==
    IF rule > Len(tags) THEN <<>>
    ELSE Repeat(<<stage, rule>>,
                IF Len(tags[rule]) = 4 THEN tags[rule][4] ELSE 1)
         \o RuleStages(stage, tags, rule + 1)

StagesInOrder(from_format, to_format) ==
    << <<"pre_decode", 0>> >>
    \o RuleStages("decode", decode_tags(from_format), 1)
    \o << <<"post_decode", 0>>, <<"pre_encode", 0>> >>
    \o RuleStages("encode", encode_tags(to_format), 1)
    \o << <<"post_encode", 0>> >>

\* C23: convert_tags on non-empty text has run pre_decode, every decode
\* rule in list order as many times as its count says (once without a
\* count) before the next rule, post_decode, pre_encode, every encode
\* rule in list order and post_encode last, every stage being given what
\* the stage before it gave.
C23_StagesRunInOrder ==
    conv.source # <<>> =>
        /\ [k \in 1..Len(conv.stages) |->
               <<conv.stages[k].stage, conv.stages[k].rule>>]
           = StagesInOrder(conv.from, conv.to)
        /\ conv.stages[1].input = conv.source
        /\ \A k \in 1..(Len(conv.stages) - 1) :
              conv.stages[k + 1].input = conv.stages[k].output
        /\ conv.text = conv.stages[Len(conv.stages)].output

\* A text of two tagged lines has gone through a rule with a count and
\* through rules after it, which have changed it.
C23_CountedRuleRan ==
    /\ conv.from = "MICRODVD"
    /\ conv.source = <<"{y:biu}", "Whenever", NewLine, "{c:$rrggbb}", "people">>
    /\ Len(conv.stages) = 12
    /\ \E k \in 1..Len(conv.stages) :
          /\ conv.stages[k].stage = "decode"
          /\ conv.stages[k].rule = 4
          /\ conv.stages[k].input # conv.stages[k].output

\* C24: a first line that is the combined bold / italic / underline tag
\* of MicroDVD and plain text is, converted to SubRip, the plain text
\* inside <b>, <i> and <u>, the three closed at the end of that line in
\* reverse order.
C24_CombinedTagIsNested ==
    /\ conv.from = "MICRODVD"
    /\ conv.to = "SUBRIP"
    /\ Len(conv.source) >= 2
    /\ SubSeq(conv.source, 1, 2) = <<"{y:biu}", "Whenever">>
    => /\ Len(conv.text) >= 7
       /\ SubSeq(conv.text, 1, 7) =
              <<"<b>", "<i>", "<u>", "Whenever", "</u>", "</i>", "</b>">>
       /\ Len(conv.source) = 2 => Len(conv.text) = 7
       /\ Len(conv.text) > 7 => conv.text[8] = NewLine

\* The text of the test: the first line tagged, the second plain.
C24_CombinedTagConverted ==
    /\ conv.from = "MICRODVD"
    /\ conv.to = "SUBRIP"
    /\ conv.source = <<"{y:biu}", "Whenever", NewLine, "people">>
    /\ conv.text = <<"<b>", "<i>", "<u>", "Whenever", "</u>", "</i>", "</b>",
                     NewLine, "people">>

\* The tokens of a text that are no tags: the plain text and the line
\* breaks.
SubRipTags == {"<b>", "<i>", "<u>", "</b>", "</i>", "</u>"}
Tags ==
    SubRipTags \cup ColourTags \cup StyleTags
    \cup {"{y:}", "{Y:}", "{c:$rrggbb}", "{\\i1}", "{\\b1}", "{\\r}",
          "{\\c&Hffffff&}"}
Plain(text) == SelectSeq(text, LAMBDA token : token \notin Tags)

\* C25: the converted text has the plain text and the line breaks of the
\* text that was given, in the same order; converted to SubRip it has no
\* tag but those of SubRip, a colour tag being removed entirely.
C25_PlainTextKept ==
    /\ Plain(conv.text) = Plain(conv.source)
    /\ conv.to = "SUBRIP" =>
          \A k \in 1..Len(conv.text) :
             conv.text[k] \in Tags => conv.text[k] \in SubRipTags

\* Two lines of which the second has a colour tag have been converted;
\* what is left is the plain text with its line break.
C25_ColourTagRemoved ==
    /\ conv.to = "SUBRIP"
    /\ \E k \in 1..Len(conv.source) :
          conv.source[k] \in {"{c:$rrggbb}", "{\\c&Hffffff&}"}
    /\ \E k \in 1..Len(conv.source) : conv.source[k] = NewLine
    /\ conv.text = Plain(conv.source)

\* ----------------------------------------------------------------------
\* Properties of read_url.

\* read_url has returned or raised.
ReadDone == net.pc = "idle" /\ net.outcome # ""

\* C26: read_url has raised IOError where the reading had failed,
\* TimeoutError where the reading was still in progress when the timeout
\* elapsed, and has returned the text where the reading had succeeded,
\* however the steps of the reader thread fall between those of the
\* caller.
C26_OutcomeTellsFailureFromTimeout ==
    ReadDone =>
        /\ net.waited = "timeout" /\ net.seen = "reading"
           => net.outcome = "TimeoutError"
        /\ net.seen # "reading" /\ ~thread.error.none
           => net.outcome = "IOError"
        /\ net.seen # "reading" /\ ~thread.text.none
           => net.outcome = "text"

\* C27: when read_url has returned or raised, the reader thread it
\* started has ended.
C27_NoThreadLeftRunning ==
    ReadDone => thread.phase = "ended"

\* ----------------------------------------------------------------------
\* Properties of blank subtitles.

\* insert_subtitles has just inserted blank subtitles.
BlankInserted == call.op = "insert_subtitles" /\ call.data = <<>> /\ hist = <<>>

\* The hide before the inserted range (0 before the first row) and the
\* show of the row that was at the start of the range.
StartOfBlank ==
    IF call.rows[1] > 0
    THEN At(get_positions(pre), call.rows[1] - 1)[cHIDE]
    ELSE 0
EndOfBlank == At(get_positions(pre), call.rows[1])[cSHOW]

\* value is the position num / den to the precision of the mode: the
\* nearest millisecond, or the frame start + i * d with d the whole
\* frames of a share of the interval.
Share(value, i, n) ==
    IF mode = "TIME"
    THEN LET num == StartOfBlank * n + i * (EndOfBlank - StartOfBlank)
             off == value * n - num
         IN 2 * off <= n /\ -2 * off <= n
    ELSE value = StartOfBlank
                 + i * ((EndOfBlank - StartOfBlank) \div n)

\* C29: blank subtitles inserted as a range of n rows before a row, the
\* hide before the range not exceeding the show of that row, divide the
\* interval between the two (from 0 before the first row) evenly: the
\* i-th is shown at start + i * d and hidden at start + (i + 1) * d in
\* the unit of the mode, each is shown when the one before it is hidden,
\* none is shown before the hide before the range and none is hidden
\* after the show of the row that follows.
C29_BlankRowsDivideInterval ==
    /\ BlankInserted
    /\ call.rows[1] < Len(pre.times)
    /\ StartOfBlank <= EndOfBlank
    => LET n == Len(call.rows)
           new(i) == At(get_positions(Self), call.rows[1] + i)
       IN /\ \A i \in 0..(n - 1) :
                /\ Share(new(i)[cSHOW], i, n)
                /\ Share(new(i)[cHIDE], i + 1, n)
                /\ new(i)[cSHOW] <= new(i)[cHIDE]
                /\ StartOfBlank <= new(i)[cSHOW]
                /\ new(i)[cHIDE] <= EndOfBlank
          /\ \A i \in 0..(n - 2) : new(i)[cHIDE] = new(i + 1)[cSHOW]
          /\ new(0)[cSHOW] = StartOfBlank

\* Three blank subtitles have been inserted in an interval that is not
\* three times a whole duration.
C29_ThreeInUnevenInterval ==
    /\ BlankInserted
    /\ call.rows[1] < Len(pre.times)
    /\ Len(call.rows) = 3
    /\ StartOfBlank < EndOfBlank
    /\ (EndOfBlank - StartOfBlank) % 3 # 0

\* C30: blank subtitles inserted at the end of the document each last the
\* optimal 3 seconds in time mode and round(3 * framerate) frames in
\* frame mode, the first is shown at the hide of the last row (at 0 in an
\* empty document), each following one at the hide of the one before it,
\* and all have empty main and translation texts.
C30_BlankRowsAtEndLastThreeSeconds ==
    BlankInserted /\ call.rows[1] = Len(pre.times) =>
        LET n == Len(call.rows)
            new(i) == At(get_positions(Self), call.rows[1] + i)
            last == IF Len(pre.times) = 0 THEN 0
                    ELSE At(get_positions(pre), Len(pre.times) - 1)[cHIDE]
            optimal == IF mode = "TIME" THEN 3000
                       ELSE Round(3 * framerate, 1000)
        IN /\ Len(times) = Len(pre.times) + n
           /\ new(0)[cSHOW] = last
           /\ \A i \in 0..(n - 1) :
                 /\ new(i)[cDURN] = optimal
                 /\ new(i)[cHIDE] = new(i)[cSHOW] + optimal
                 /\ At(main_texts, call.rows[1] + i) = ""
                 /\ At(tran_texts, call.rows[1] + i) = ""
           /\ \A i \in 1..(n - 1) : new(i)[cSHOW] = new(i - 1)[cHIDE]

\* Two or more blank subtitles have been inserted after the last row of
\* a document.
C30_BlankRowsAppended ==
    /\ BlankInserted
    /\ call.rows[1] = Len(pre.times)
    /\ Len(pre.times) > 0
    /\ Len(call.rows) >= 2

\* ----------------------------------------------------------------------
\* Texts are cut and pasted back where they were cut.

\* Opened documents of three and of four rows, the latter with an empty
\* translation.
CutTimeDocuments ==
    TimeDocuments \cup
    {[positions |-> << <<0, 80>>, <<100, 180>>, <<200, 280>>, <<300, 380>> >>,
      main_texts |-> <<"a", "b", "c", "d">>,
      tran_texts |-> <<"x", "", "y", "z">>]}

CutFrameDocuments ==
    FrameDocuments \cup
    {[positions |-> << <<0, 2>>, <<3, 4>>, <<5, 7>>, <<8, 9>> >>,
      main_texts |-> <<"a", "b", "c", "d">>,
      tran_texts |-> <<"x", "", "y", "z">>]}

InitCut ==
    /\ mode \in Modes
    /\ framerate \in Framerates
    /\ \E d \in (IF mode = "TIME" THEN CutTimeDocuments
                ELSE CutFrameDocuments) :
          LET row(i) == IF mode = "TIME"
                        THEN TimeRow(framerate, d.positions[i][1],
                                     d.positions[i][2])
                        ELSE FrameRow(framerate, d.positions[i][1],
                                      d.positions[i][2])
          IN /\ times = [i \in 1..Len(d.positions) |-> row(i).time]
             /\ frames = [i \in 1..Len(d.positions) |-> row(i).frame]
             /\ main_texts = d.main_texts
             /\ tran_texts = d.tran_texts
    /\ clipboard \in Clipboards
    /\ undoables = <<>>
    /\ redoables = <<>>
    /\ call = NoCall
    /\ pre = Self
    /\ post = Data(Self)
    /\ hist = <<>>
    /\ calls = 0
    /\ run = [edits |-> 0, first |-> Data(Self), final |-> Data(Self)]
    /\ notes = <<>>
    /\ conv = NoConversion
    /\ net = NoRead
    /\ manager = NoManager

FreshCutTexts ==
    \E rows \in RowLists, document \in Documents :
       /\ calls < MaxEdits
       /\ call.op # "cut_texts"
       /\ Called([NoCall EXCEPT !.op = "cut_texts", !.rows = rows,
                                !.document = document],
                 cut_texts(Self, rows, document, "DO"))

\* The clipboard is pasted at the first of the rows that were cut, in
\* the document they were cut from; the call keeps the rows of the cut.
PasteBack ==
    LET start_row == RowMin(call.rows)
        s2 == paste_texts(Self, start_row, call.document, "DO")
    IN /\ call.op = "cut_texts"
       /\ hist = <<>>
       /\ calls < MaxEdits
       /\ Called([NoCall EXCEPT !.op = "paste_texts", !.row = start_row,
                                !.document = call.document,
                                !.rows = call.rows, !.pasted = s2.ret],
                 s2)

NextCut ==
    \/ FreshCutTexts
    \/ PasteBack
    \/ Undo
    \/ Redo

SpecCut == InitCut /\ [][NextCut]_vars

\* ----------------------------------------------------------------------
\* Properties of the rows an action reports as updated.

\* The action registered by the last call.
LastAction == Head(undoables).actions[1]

\* C31: the action registered by set_time / set_frame records as updated
\* rows exactly the inclusive range [min(old, new), max(old, new)] and no
\* updated positions when a SHOW edit moved the row from old to new, and
\* records no updated rows and updated positions = [row] when the row did
\* not move or the field was HIDE or DURATION.  The rows outside what is
\* recorded hold what they held, and every row between old and new has
\* shifted by one.
C31_UpdatedRowsSpanMove ==
    (PositionCall /\ call.registered /\ hist = <<>>)
    => LET old == call.row
           new == call.ret
       IN IF call.col = cSHOW /\ new # old
          THEN /\ LastAction.updated_rows = Range(Min(old, new), Max(old, new))
               /\ LastAction.updated_positions = <<>>
               /\ \A k \in 1..4, r \in RowsOf(Self) :
                     IF r < Min(old, new) \/ r > Max(old, new)
                     THEN At(Data(Self)[k], r) = At(Data(pre)[k], r)
                     ELSE r # new
                          => At(Data(Self)[k], r)
                             = At(Data(pre)[k],
                                  IF old < new THEN r + 1 ELSE r - 1)
          ELSE /\ LastAction.updated_rows = <<>>
               /\ LastAction.updated_positions = <<call.row>>
               /\ new = old
               /\ \A k \in 1..4, r \in RowsOf(Self) :
                     r # call.row => At(Data(Self)[k], r) = At(Data(pre)[k], r)

\* A SHOW edit has moved the first row past two others: three rows are
\* recorded as updated.
C31_MovedPastTwoRows ==
    /\ PositionCall
    /\ call.registered
    /\ hist = <<>>
    /\ call.col = cSHOW
    /\ call.row = 0
    /\ call.ret = 2
    /\ LastAction.updated_rows = <<0, 1, 2>>
    /\ LastAction.updated_positions = <<>>

\* ----------------------------------------------------------------------
\* Properties of what an edit leaves alone.

\* C32: set_time / set_frame change only the addressed row: a HIDE edit
\* leaves the show of the row unchanged and recomputes its duration, a
\* DURATION edit leaves its show unchanged and recomputes its hide, a
\* SHOW edit leaves its hide unchanged and recomputes its duration, in
\* times and in frames; HIDE and DURATION edits change the index of no
\* row and return the row they were given; the positions and texts of
\* every other row, and the texts of the addressed row, are unchanged.
C32_OnlyAddressedRowChanges ==
    (PositionCall /\ call.registered /\ hist = <<>>)
    => LET t0 == At(pre.times, call.row)
           f0 == At(pre.frames, call.row)
           t1 == At(times, call.ret)
           f1 == At(frames, call.ret)
       IN /\ call.col = cHIDE
             => /\ t1[cSHOW] = t0[cSHOW] /\ f1[cSHOW] = f0[cSHOW]
                /\ t1[cDURN] = t1[cHIDE] - t1[cSHOW]
                /\ f1[cDURN] = f1[cHIDE] - f1[cSHOW]
          /\ call.col = cDURN
             => /\ t1[cSHOW] = t0[cSHOW] /\ f1[cSHOW] = f0[cSHOW]
                /\ t1[cHIDE] = t1[cSHOW] + t1[cDURN]
                /\ f1[cHIDE] = f1[cSHOW] + f1[cDURN]
          /\ call.col = cSHOW
             => /\ t1[cHIDE] = t0[cHIDE] /\ f1[cHIDE] = f0[cHIDE]
                /\ t1[cDURN] = t1[cHIDE] - t1[cSHOW]
                /\ f1[cDURN] = f1[cHIDE] - f1[cSHOW]
          /\ call.col \in {cHIDE, cDURN}
             => /\ call.ret = call.row
                /\ main_texts = pre.main_texts
                /\ tran_texts = pre.tran_texts
          /\ \A k \in 1..4 :
                ListPop(Data(Self)[k], call.ret)
                = ListPop(Data(pre)[k], call.row)
          /\ At(main_texts, call.ret) = At(pre.main_texts, call.row)
          /\ At(tran_texts, call.ret) = At(pre.tran_texts, call.row)
          /\ Len(times) = Len(pre.times)

\* The duration of the last row was edited in frame mode: its hide was
\* recomputed in frames and in times, and its show kept.
C32_DurationEditedHideRecomputed ==
    /\ PositionCall
    /\ call.registered
    /\ hist = <<>>
    /\ call.col = cDURN
    /\ call.row = Len(times) - 1
    /\ mode = "FRAME"
    /\ At(frames, call.row)[cHIDE] # At(pre.frames, call.row)[cHIDE]
    /\ At(times, call.row)[cHIDE] # At(pre.times, call.row)[cHIDE]
    /\ At(frames, call.row)[cSHOW] = At(pre.frames, call.row)[cSHOW]

\* ----------------------------------------------------------------------
\* Properties of the clipboard.

\* The rows of the last call, as a set.
CalledRows == {call.rows[i] : i \in 1..Len(call.rows)}

\* C33: copy_texts(rows, document) sets the clipboard to a sequence of
\* length max(rows) - min(rows) + 1 whose entry at offset k is the text
\* of row min(rows) + k in the given document when that row is in rows
\* and None otherwise, and it changes neither the four lists nor the
\* undo or redo stack.
C33_CopyFillsClipboard ==
    (call.op = "copy_texts" /\ hist = <<>>)
    => LET lo == CHOOSE r \in CalledRows : \A q \in CalledRows : r <= q
           hi == CHOOSE r \in CalledRows : \A q \in CalledRows : r >= q
       IN /\ Len(clipboard) = hi - lo + 1
          /\ \A k \in 0..(hi - lo) :
                clipboard[k + 1]
                = (IF lo + k \in CalledRows
                   THEN Some(At(Texts(pre, call.document), lo + k))
                   ELSE None)
          /\ Data(Self) = Data(pre)
          /\ undoables = pre.undoables
          /\ redoables = pre.redoables
          /\ ~call.registered

\* The translations of the first and the last of three rows were
\* copied: the clipboard holds them with None between.
C33_CopiedAroundARow ==
    /\ call.op = "copy_texts"
    /\ hist = <<>>
    /\ call.rows = <<0, 2>>
    /\ call.document = "TRAN"
    /\ clipboard = <<Some(At(tran_texts, 0)), None, Some(At(tran_texts, 2))>>
    /\ clipboard # pre.clipboard

\* ----------------------------------------------------------------------
\* Properties of what the text methods leave alone.

\* The rows the last call addressed in a document.
Addressed(document) ==
    IF call.op = "set_text"
    THEN (IF call.document = document THEN {call.row} ELSE {})
    ELSE IF call.op = "replace_both_texts"
    THEN (IF document = "MAIN" THEN CalledRows
          ELSE {call.tran_rows[i] : i \in 1..Len(call.tran_rows)})
    ELSE (IF call.document = document THEN CalledRows ELSE {})

\* C34: the text methods (set_text, replace_texts, replace_both_texts,
\* clear_texts, cut_texts) never reorder rows: they leave times, frames
\* and the number of rows unchanged, leave the texts of the document not
\* addressed unchanged, and in the document addressed change only the
\* rows listed in the call.
C34_TextEditsKeepRows ==
    (/\ call.op \in {"set_text", "replace_texts", "replace_both_texts",
                     "clear_texts", "cut_texts"}
     /\ hist = <<>>)
    => /\ times = pre.times
       /\ frames = pre.frames
       /\ Len(main_texts) = Len(pre.main_texts)
       /\ Len(tran_texts) = Len(pre.tran_texts)
       /\ \A document \in Documents, r \in RowsOf(pre) :
             r \notin Addressed(document)
             => At(Texts(Self, document), r) = At(Texts(pre, document), r)

\* The main texts of the first and the last of three rows were cleared:
\* the row between them and the translations are as they were.
C34_ClearedAroundARow ==
    /\ call.op = "clear_texts"
    /\ hist = <<>>
    /\ call.rows = <<0, 2>>
    /\ call.document = "MAIN"
    /\ main_texts = <<"", At(pre.main_texts, 1), "">>
    /\ main_texts # pre.main_texts
    /\ tran_texts = pre.tran_texts

\* ----------------------------------------------------------------------
\* A pattern manager that has read its pattern files is asked for the
\* patterns of a script, a language and a country.

\* The codes pattern files exist for, and the patterns they hold: a
\* name, a policy and, for reference, the code of the file read.
Codes == {"Zyyy", "Latn", "Latn-en"}
PatternNames == {"Ellipses", "Dialogue"}
Policies == {"Append", "Replace"}
Patterns ==
    [name : PatternNames, policy : Policies, code : Codes]

\* The patterns in the order they were read, of files in any order.
PatternsRead ==
    UNION {[1..n -> Patterns] : n \in 0..MaxPatterns}

\* _read_patterns_from_file appends every pattern to the list of its
\* code.
ReadPatterns(read) ==
    [code \in {read[i].code : i \in 1..Len(read)} |->
        SelectSeq(read, LAMBDA pattern : pattern.code = code)]

\* The identifiers get_patterns is called with.
Identifiers ==
    {<<NoIdentifier, NoIdentifier, NoIdentifier>>,
     <<"Latn", NoIdentifier, NoIdentifier>>,
     <<"Latn", "en", NoIdentifier>>,
     <<"Latn", "en", "US">>}

InitPatterns ==
    /\ mode = "TIME"
    /\ framerate \in Framerates
    /\ times = <<>>
    /\ frames = <<>>
    /\ main_texts = <<>>
    /\ tran_texts = <<>>
    /\ clipboard = <<>>
    /\ undoables = <<>>
    /\ redoables = <<>>
    /\ call = NoCall
    /\ pre = Self
    /\ post = Data(Self)
    /\ hist = <<>>
    /\ calls = 0
    /\ run = [edits |-> 0, first |-> Data(Self), final |-> Data(Self)]
    /\ notes = <<>>
    /\ conv = NoConversion
    /\ net = NoRead
    /\ \E read \in PatternsRead :
          manager = [NoManager EXCEPT !._patterns = ReadPatterns(read)]

GetPatterns ==
    \E identifiers \in Identifiers :
       /\ ~manager.asked
       /\ manager' = get_patterns(manager, identifiers[1], identifiers[2],
                                  identifiers[3])
       /\ UNCHANGED <<times, frames, main_texts, tran_texts, clipboard,
                      undoables, redoables, mode, framerate, call, pre,
                      post, hist, calls, run, notes, conv, net>>

NextPatterns == GetPatterns

SpecPatterns == InitPatterns /\ [][NextPatterns]_vars

\* ----------------------------------------------------------------------
\* Properties of the patterns handed out.

\* The place of a code among the codes asked for: the more specific code
\* has the higher place.
Specificity(code) ==
    CHOOSE k \in 1..Len(manager.codes) : manager.codes[k] = code

\* The pattern at i is followed by a pattern with a more specific code,
\* its name and the policy 'Replace'.
ReplacedByMoreSpecific(i) ==
    \E j \in (i + 1)..Len(manager.patterns) :
       /\ Specificity(manager.patterns[j].code)
          > Specificity(manager.patterns[i].code)
       /\ manager.patterns[j].name = manager.patterns[i].name
       /\ manager.patterns[j].policy = "Replace"

\* The indices in indices, in ascending order.
InOrder(indices) ==
    [k \in 1..Cardinality(indices) |->
        CHOOSE i \in indices : Cardinality({q \in indices : q < i}) = k - 1]

\* C35: _filter_patterns returns the patterns it is given in their
\* order with exactly those removed for which a later pattern, one with
\* a more specific code, has the same name and the policy 'Replace'; a
\* pattern followed only by patterns of its name with another policy is
\* kept, and the last pattern of every name is always kept.
C35_ReplacedByMoreSpecificCode ==
    manager.asked
    => LET kept == {i \in 1..Len(manager.patterns) :
                      ~ReplacedByMoreSpecific(i)}
       IN manager.ret = [k \in 1..Cardinality(kept) |->
                            manager.patterns[InOrder(kept)[k]]]

\* ----------------------------------------------------------------------
\* Properties of the move of a row.

\* The row before the move whose entries are at row i after it, the
\* row at old having moved to new.
CameFrom(i, old, new) ==
    IF i = new THEN old
    ELSE IF old <= i /\ i < new THEN i + 1
    ELSE IF new < i /\ i <= old THEN i - 1
    ELSE i

\* C36: a SHOW edit that moves row r changes the position of that row
\* only: the relative order and the contents (time triple, frame triple,
\* both texts) of all other rows are unchanged, and the four lists after
\* the edit are the same permutation of their contents before the move.
C36_MoveIsOnePermutation ==
    (/\ PositionCall
     /\ call.col = cSHOW
     /\ call.registered
     /\ call.ret # call.row
     /\ hist = <<>>)
    => /\ \A k \in 1..4, i \in RowsOf(Self) :
             i # call.ret
             => At(Data(Self)[k], i)
                = At(Data(pre)[k], CameFrom(i, call.row, call.ret))
       /\ \A k \in 1..4 : Len(Data(Self)[k]) = Len(Data(pre)[k])
       /\ At(main_texts, call.ret) = At(pre.main_texts, call.row)
       /\ At(tran_texts, call.ret) = At(pre.tran_texts, call.row)
       /\ At(times, call.ret)[cHIDE] = At(pre.times, call.row)[cHIDE]
       /\ At(frames, call.ret)[cHIDE] = At(pre.frames, call.row)[cHIDE]

\* The first of three rows with texts of their own was moved to the
\* end: the two others have moved up in their order.
C36_FirstRowMovedLast ==
    /\ PositionCall
    /\ call.col = cSHOW
    /\ hist = <<>>
    /\ call.row = 0
    /\ call.ret = 2
    /\ main_texts = <<"b", "c", "a">>
    /\ pre.main_texts = <<"a", "b", "c">>

\* ----------------------------------------------------------------------
\* Properties of cutting and pasting.

\* The last call has pasted the clipboard back where it was cut, and the
\* cut was the edit before.
PastedBack ==
    /\ call.op = "paste_texts"
    /\ call.rows # <<>>
    /\ run.edits = 2
    /\ hist = <<>>

\* C37: cut_texts(rows, document) followed by paste_texts(min(rows),
\* document) restores the text lists to their contents before the cut,
\* for every non-empty set of rows: the rows of the set get their texts
\* back and the rows between them, stored as None on the clipboard, are
\* not touched.  No row is added and the rows pasted into are the rows
\* that were cut.
C37_PasteBackRestoresCut ==
    PastedBack
    => /\ main_texts = run.first[3]
       /\ tran_texts = run.first[4]
       /\ times = run.first[1]
       /\ frames = run.first[2]
       /\ call.pasted = call.rows
       /\ \A r \in RowsOf(Self) :
             r \notin CalledRows
             => At(Texts(pre, call.document), r)
                = At(Texts(Self, call.document), r)
       /\ \A r \in CalledRows : At(Texts(pre, call.document), r) = ""

\* The first and the last of four rows were cut and pasted back: the
\* clipboard holds two None entries between their texts, which are back.
C37_CutAroundTwoRowsPastedBack ==
    /\ PastedBack
    /\ call.rows = <<0, 3>>
    /\ call.document = "MAIN"
    /\ clipboard = <<Some("a"), None, None, Some("d")>>
    /\ pre.main_texts = <<"", "b", "c", "">>
    /\ main_texts = <<"a", "b", "c", "d">>

\* C38: paste_texts(start_row, document) with a clipboard of length L on
\* a document of n rows leaves exactly max(n, start_row + L) rows,
\* writes clipboard entry i to row start_row + i for every entry that is
\* not None, leaves the text of the rows at None offsets and of all rows
\* outside [start_row, start_row + L) unchanged, and returns exactly the
\* list of the rows it wrote to in ascending order.
C38_PasteWritesEntriesInPlace ==
    (call.op = "paste_texts" /\ hist = <<>>)
    => LET data == pre.clipboard
           n == Len(pre.times)
           written == {call.row + i - 1 : i \in {q \in 1..Len(data) :
                                                   ~data[q].none}}
           other == IF call.document = "MAIN" THEN "TRAN" ELSE "MAIN"
       IN /\ \A k \in 1..4 :
                Len(Data(Self)[k])
                = (IF call.row + Len(data) > n THEN call.row + Len(data)
                   ELSE n)
          /\ \A i \in 1..Len(data) :
                ~data[i].none
                => At(Texts(Self, call.document), call.row + i - 1)
                   = data[i].text
          /\ \A r \in RowsOf(pre) :
                /\ r \notin written
                   => At(Texts(Self, call.document), r)
                      = At(Texts(pre, call.document), r)
                /\ At(Texts(Self, other), r) = At(Texts(pre, other), r)
          /\ call.pasted = InOrder(written)

\* A clipboard with a None entry was pasted from the second of three
\* rows: a fourth row was added, and the third row, under the None
\* entry, kept its text.
C38_PastedOverNoneAndPastEnd ==
    /\ call.op = "paste_texts"
    /\ hist = <<>>
    /\ call.row = 1
    /\ pre.clipboard = <<Some("p"), None, Some("q")>>
    /\ Len(pre.times) = 3
    /\ Len(times) = 4
    /\ call.pasted = <<1, 3>>
    /\ At(Texts(Self, call.document), 2) = At(Texts(pre, call.document), 2)
    /\ At(Texts(Self, call.document), 3) = "q"

\* ----------------------------------------------------------------------
\* Properties of what the reader thread stores.

\* C39: in every state of a call of read_url the reader thread has set
\* at most one of its fields text and error, each is written at most
\* once, and read_url never returns None: whenever it returns normally,
\* the value is the text the reader thread stored.
C39_ReturnsTheTextStored ==
    /\ \A i \in 1..Len(net.threads) :
          LET t == net.threads[i]
          IN /\ t.text.none \/ t.error.none
             /\ Len(t.written) <= 1
             /\ ~t.text.none <=> t.written = <<"text">>
             /\ ~t.error.none <=> t.written = <<"error">>
    /\ (ReadDone /\ net.outcome = "text")
       => /\ net.returned # None
          /\ net.returned = thread.text
          /\ thread.written = <<"text">>

\* read_url has returned the text of a thread that stored it after the
\* timeout had elapsed.
C39_ReturnedTextStoredAfterTimeout ==
    /\ ReadDone
    /\ net.outcome = "text"
    /\ net.waited = "timeout"
    /\ net.seen = "reading"
    /\ net.returned = Some("document")

\* ----------------------------------------------------------------------
\* Properties of the methods made of other methods.

\* C40: each call of a composite public method adds exactly one entry to
\* the undo stack: clear_texts and cut_texts register one action whose
\* description is then replaced by 'Clearing texts' / 'Cutting texts',
\* and paste_texts leaves one action described 'Pasting texts' whether
\* or not it had to insert rows (two registered actions grouped into one
\* when it did).  The entries below the new one are as they were.
C40_CompositeAddsOneEntry ==
    (call.op \in {"clear_texts", "cut_texts", "paste_texts"} /\ hist = <<>>)
    => /\ Len(undoables) = Len(pre.undoables) + 1
       /\ Tail(undoables) = pre.undoables
       /\ Head(undoables).description
          = (IF call.op = "clear_texts" THEN "Clearing texts"
             ELSE IF call.op = "cut_texts" THEN "Cutting texts"
             ELSE "Pasting texts")
       /\ Reverts(Head(undoables))
          = (IF ExtendingPaste THEN <<"replace_texts", "remove_subtitles">>
             ELSE <<"replace_texts">>)

\* Texts were cut: the one entry of the undo stack is described
\* 'Cutting texts' and reverts by replacing the texts.
C40_CutLeftOneEntry ==
    /\ call.op = "cut_texts"
    /\ hist = <<>>
    /\ Len(undoables) = 1
    /\ Head(undoables).description = "Cutting texts"
    /\ Head(undoables).actions[1].texts # <<"">>
    /\ Data(Self) # Data(pre)

====
